---- MODULE Spec2Model ----
(***************************************************************************)
(* RiskDash: the per-boat risk classifier (calculateRisk), the display     *)
(* tier mappers and their inputs, modelled from the JavaScript source.     *)
(*                                                                         *)
(* Numbers are fixed-point integers in hundredths (2.5 is 250, 95% is      *)
(* 9500, 14 days is 1400).  Timestamps and the evaluation time are in      *)
(* hundredths of a day.                                                    *)
(***************************************************************************)
EXTENDS Integers, Sequences, FiniteSets, TLC

VARIABLES boat, thresholds, settings, now, edits, pc, result
vars == <<boat, thresholds, settings, now, edits, pc, result>>

-----------------------------------------------------------------------------
(* JavaScript values: a kind k and, where the kind carries one, a number n *)

Null == [k |-> "null", n |-> 0]
Undef == [k |-> "undefined", n |-> 0]
Num(x) == [k |-> "number", n |-> x]
NaN == [k |-> "NaN", n |-> 0]
PosInf == [k |-> "Infinity", n |-> 0]
NegInf == [k |-> "-Infinity", n |-> 0]
Bool(b) == [k |-> "boolean", n |-> IF b THEN 1 ELSE 0]
\* a string holding the decimal text of x, e.g. "3"
NumStr(x) == [k |-> "numstr", n |-> x]
\* the string 'not a number'
BadStr == [k |-> "string", n |-> 0]
\* the object {}
Obj == [k |-> "object", n |-> 0]
\* an ISO timestamp string for the instant d
DateStr(d) == [k |-> "date", n |-> d]

\* typeof v === 'number'
IsNumberType(v) == v.k \in {"number", "NaN", "Infinity", "-Infinity"}

\* ToBoolean
Truthy(v) ==
    CASE v.k = "number" -> v.n # 0
      [] v.k = "boolean" -> v.n = 1
      [] v.k \in {"null", "undefined", "NaN"} -> FALSE
      [] OTHER -> TRUE

\* ToNumber
ToNumber(v) ==
    CASE IsNumberType(v) -> v
      [] v.k = "null" -> Num(0)
      [] v.k = "boolean" -> Num(100 * v.n)
      [] v.k = "numstr" -> Num(v.n)
      [] OTHER -> NaN

\* x < y on values of type number
NumLess(x, y) ==
    CASE x.k = "NaN" \/ y.k = "NaN" -> FALSE
      [] x.k = "-Infinity" -> y.k # "-Infinity"
      [] x.k = "Infinity" -> FALSE
      [] y.k = "Infinity" -> TRUE
      [] y.k = "-Infinity" -> FALSE
      [] OTHER -> x.n < y.n

\* ToPrimitive yields a string for strings and for {} ("[object Object]")
IsStringLike(v) == v.k \in {"numstr", "date", "object", "string"}

\* position of the first character: digits < '[' < 'n'
LexRank(v) ==
    CASE v.k \in {"numstr", "date"} -> 0
      [] v.k = "object" -> 1
      [] OTHER -> 2

\* string comparison; digit strings of the model have equal length
StrLess(a, b) ==
    \/ LexRank(a) < LexRank(b)
    \/ LexRank(a) = 0 /\ LexRank(b) = 0 /\ a.n < b.n

\* the relational operators a < b, a > b, a <= b, a >= b
Less(a, b) ==
    IF IsStringLike(a) /\ IsStringLike(b) THEN StrLess(a, b)
    ELSE NumLess(ToNumber(a), ToNumber(b))

Greater(a, b) == Less(b, a)

Comparable(a, b) ==
    \/ IsStringLike(a) /\ IsStringLike(b)
    \/ ToNumber(a).k # "NaN" /\ ToNumber(b).k # "NaN"

LessEq(a, b) == Comparable(a, b) /\ ~Less(b, a)

GreaterEq(a, b) == Comparable(a, b) /\ ~Less(a, b)

\* a || b
OrElse(a, b) == IF Truthy(a) THEN a ELSE b

\* a ?? b
Coalesce(a, b) == IF a.k \in {"null", "undefined"} THEN b ELSE a

\* a variant of the toggle test: any truthy value enables
IsOneLoosely(a) == Truthy(a)

\* a === 1
IsOne(a) == a.k = "number" /\ a.n = 100

-----------------------------------------------------------------------------
(* Rendered text of a reason                                               *)

\* `${v}`
Template(v) == [f |-> "String", k |-> v.k, n |-> v.n]

\* v.toFixed(1): one decimal, rounded
ToFixed1(v) ==
    [f |-> "toFixed(1)", k |-> v.k,
     n |-> IF v.n >= 0 THEN ((v.n + 5) \div 10) * 10
           ELSE 0 - (((0 - v.n) + 5) \div 10) * 10]

\* v.toFixed(2)
ToFixed2(v) == [f |-> "toFixed(2)", k |-> v.k, n |-> v.n]

NoText == [f |-> "", k |-> "", n |-> 0]

Reason(label, text) == [label |-> label, text |-> text]

NoVramReason == Reason("No VRAM data", NoText)
ScanExemptReason == Reason("Scan Exempt", NoText)

\* r.includes('VRAM data')
IncludesVramData(r) == r.label = "No VRAM data"

-----------------------------------------------------------------------------
(* Threshold configuration                                                 *)

defaultThresholds ==
    [low_vph |-> Num(250),
     low_scan_age_days |-> Num(1400),
     low_product_compliance |-> Num(9500),
     low_true_policy_compliance |-> Num(9500),
     low_raw_policy_compliance |-> Num(9500),
     low_tam_past_due |-> Num(500),
     med_ra_vph |-> Num(350),
     med_ess_compliance |-> Num(9500),
     med_scan_age_days |-> Num(1400),
     med_tam_past_due |-> Num(1000),
     med_true_policy_compliance |-> Num(9500),
     med_raw_policy_compliance |-> Num(0),
     auto_high_ra_vph |-> Num(99900),
     auto_high_scan_age_days |-> Num(99900),
     high_ess_compliance |-> Num(9000),
     high_raw_policy_compliance |-> Num(0),
     high_product_compliance |-> Num(0),
     high_tam_past_due |-> Num(2000),
     color_product_green |-> Num(9500),
     color_product_red |-> Num(9000),
     color_policy_green |-> Num(9500),
     color_policy_red |-> Num(9000),
     color_policy_raw_green |-> Num(9500),
     color_policy_raw_red |-> Num(9000),
     color_vph_green |-> Num(250),
     color_vph_red |-> Num(350),
     color_scan_green |-> Num(1400),
     color_scan_red |-> Num(1400),
     hq_color_product_green |-> Num(9500),
     hq_color_product_red |-> Num(9000),
     hq_color_policy_green |-> Num(9500),
     hq_color_policy_red |-> Num(9000),
     hq_color_policy_raw_green |-> Num(9500),
     hq_color_policy_raw_red |-> Num(9000),
     low_product_compliance_enabled |-> Num(100),
     low_true_policy_compliance_enabled |-> Num(0),
     low_raw_policy_compliance_enabled |-> Num(0),
     low_tam_past_due_enabled |-> Num(0)]

ThresholdKeys == DOMAIN defaultThresholds

\* the object {}: every key reads as undefined
EmptyConfig == [key \in ThresholdKeys |-> Undef]

\* the thresholds argument: null, undefined, or an object with its keys
NullThresholds == [k |-> "null", cfg |-> EmptyConfig]
UndefThresholds == [k |-> "undefined", cfg |-> EmptyConfig]
ConfigObject(c) == [k |-> "object", cfg |-> c]

\* (thresholds = defaultThresholds) => ... thresholds || defaultThresholds
ResolveThresholds(th) ==
    IF th.k \in {"null", "undefined"} THEN defaultThresholds ELSE th.cfg

-----------------------------------------------------------------------------
(* scanAge                                                                 *)

\* new Date() - new Date(d), in hundredths of a day; a number, a boolean or
\* a digit string is read as an instant next to the epoch
ElapsedSince(d, t) == IF d.k = "date" THEN t - d.n ELSE t

\* new Date(d) is a valid date
ValidDate(d) == d.k \in {"date", "number", "boolean", "numstr"}

scanAge(d, t) ==
    IF ~Truthy(d) THEN Null
    ELSE IF ~ValidDate(d) THEN Null
    ELSE LET el == ElapsedSince(d, t)
             \* Math.floor((new Date() - date) / 86400000)
             age == IF el >= 0 THEN el \div 100 ELSE 0 - (((0 - el) + 99) \div 100)
         IN IF age >= 0 THEN Num(100 * age) ELSE Null

-----------------------------------------------------------------------------
(* calculateRisk                                                           *)

\* a variant of the locals that starts from the worst level
StartHigh == [level |-> "HIGH", reasons |-> <<>>, highDueToNoScans |-> FALSE,
              threw |-> FALSE]

\* the locals of calculateRisk; threw records an uncaught TypeError
Start == [level |-> "LOW", reasons |-> <<>>, highDueToNoScans |-> FALSE,
          threw |-> FALSE]

\* the value that marks `x.toFixed is not a function`
TypeError == Reason("TypeError", NoText)

\* `${label}: ${v.toFixed(1)}%` and `${label}: ${v.toFixed(2)}`
Percent(label, v) ==
    IF IsNumberType(v) THEN Reason(label, ToFixed1(v)) ELSE TypeError
Vph(label, v) ==
    IF IsNumberType(v) THEN Reason(label, ToFixed2(v)) ELSE TypeError
\* `${label}: ${v}` and `${label}: ${age}d`
Plain(label, v) == Reason(label, Template(v))
Days(label, age) == Reason(label, [f |-> "days", k |-> age.k, n |-> age.n])

\* a variant that renders the reason and drops it
PushSilently(s, r) ==
    IF r = TypeError THEN [s EXCEPT !.threw = TRUE] ELSE s

\* reasons.push(r), where rendering r may throw
Push(s, r) ==
    IF r = TypeError THEN [s EXCEPT !.threw = TRUE]
    ELSE [s EXCEPT !.reasons = Append(@, r)]

\* a variant that stops at the first trigger: else-if chaining of the checks
TriggerOnce(s, c, r) ==
    IF s.threw \/ ~c \/ s.level = "HIGH" THEN s
    ELSE Push([s EXCEPT !.level = "HIGH"], r)

\* if (c) { level = 'HIGH'; reasons.push(r); }
Trigger(s, c, r) ==
    IF s.threw \/ ~c THEN s ELSE Push([s EXCEPT !.level = "HIGH"], r)

\* a variant that reports the first failing check only
PushIfFirst(s, c, r) ==
    IF s.threw \/ ~c \/ s.reasons # <<>> THEN s ELSE Push(s, r)

\* if (c) reasons.push(r);
PushIf(s, c, r) == IF s.threw \/ ~c THEN s ELSE Push(s, r)

\* v !== null && v < thr
Below(v, thr) == v.k # "null" /\ Less(v, thr)

\* a variant of the upper-bound comparison that fails at the threshold too
AboveOrEqual(v, thr) == v.k # "null" /\ GreaterEq(v, thr)

\* v !== null && v > thr
Above(v, thr) == v.k # "null" /\ Greater(v, thr)

\* a variant of the LOW VPH comparison that passes at the threshold
AtOrAboveStrict(v, thr) == v.k # "null" /\ Greater(v, thr)

\* v !== null && v >= thr
AtOrAbove(v, thr) == v.k # "null" /\ GreaterEq(v, thr)

\* a variant without single-network mode: the flag is never read
IsNmciIgnored(b) == FALSE

\* boat.isNmci === true
IsNmci(b) == b.isNmci = Bool(TRUE)

NiprAge(b, t) == IF IsNmci(b) THEN Null ELSE scanAge(b.vramNiprScanDate, t)
SiprAge(b, t) == scanAge(b.vramSiprScanDate, t)

hasNiprVramData(b) ==
    IF IsNmci(b) THEN TRUE
    ELSE \/ b.vramNiprScanDate # Null
         \/ b.vramNiprRaVph # Null
         \/ b.vramNiprAssets # Null

hasSiprVramData(b) ==
    \/ b.vramSiprScanDate # Null
    \/ b.vramSiprRaVph # Null
    \/ b.vramSiprAssets # Null

hasAnyVramData(b) == hasNiprVramData(b) \/ hasSiprVramData(b)

\* HIGH RISK TRIGGERS: every check runs, each appends its reason
HighStage(b, t, tnow) ==
    LET isNmci == IsNmci(b)
        nAge == NiprAge(b, tnow)
        sAge == SiprAge(b, tnow)
        highProductComplianceThreshold == OrElse(t.high_product_compliance, Num(5000))
        autoHighVphThreshold == OrElse(t.auto_high_ra_vph, Num(500))
        autoHighScanAgeThreshold == OrElse(t.auto_high_scan_age_days, Num(3000))
        highEssComplianceThreshold == OrElse(t.high_ess_compliance, Num(0))
        highRawPolicyThreshold == OrElse(t.high_raw_policy_compliance, Num(0))
        highTamThreshold == OrElse(t.high_tam_past_due, Num(2000))
        prodOn == Greater(highProductComplianceThreshold, Num(0))
        essOn == Greater(highEssComplianceThreshold, Num(0))
        rawOn == Greater(highRawPolicyThreshold, Num(0))
        s1 == Trigger(Start,
                  ~isNmci /\ Greater(OrElse(b.essNiprBreakfix, Num(0)), Num(0)),
                  Plain("NIPR Breakfix", b.essNiprBreakfix))
        s2 == Trigger(s1,
                  Greater(OrElse(b.essSiprBreakfix, Num(0)), Num(0)),
                  Plain("SIPR Breakfix", b.essSiprBreakfix))
        noVram == ~hasAnyVramData(b) \/ (isNmci /\ ~hasSiprVramData(b))
        s3 == IF noVram
              THEN [Trigger(s2, TRUE, NoVramReason) EXCEPT !.highDueToNoScans = TRUE]
              ELSE s2
        s4 == Trigger(s3,
                  prodOn /\ ~isNmci /\ Below(b.essNiprProductCompliance, highProductComplianceThreshold),
                  Percent("NIPR Prod", b.essNiprProductCompliance))
        s5 == Trigger(s4,
                  prodOn /\ Below(b.essSiprProductCompliance, highProductComplianceThreshold),
                  Percent("SIPR Prod", b.essSiprProductCompliance))
        s6 == Trigger(s5,
                  ~isNmci /\ Above(b.vramNiprRaVph, autoHighVphThreshold),
                  Vph("NIPR VPH", b.vramNiprRaVph))
        s7 == Trigger(s6,
                  Above(b.vramSiprRaVph, autoHighVphThreshold),
                  Vph("SIPR VPH", b.vramSiprRaVph))
        s8 == Trigger(s7,
                  ~isNmci /\ Above(nAge, autoHighScanAgeThreshold),
                  Days("NIPR Scan", nAge))
        s9 == Trigger(s8,
                  Above(sAge, autoHighScanAgeThreshold),
                  Days("SIPR Scan", sAge))
        s10 == Trigger(s9,
                  essOn /\ ~isNmci /\ Below(b.essNiprTruePolicy, highEssComplianceThreshold),
                  Percent("NIPR True Policy", b.essNiprTruePolicy))
        s11 == Trigger(s10,
                  essOn /\ Below(b.essSiprTruePolicy, highEssComplianceThreshold),
                  Percent("SIPR True Policy", b.essSiprTruePolicy))
        s12 == Trigger(s11,
                  rawOn /\ ~isNmci /\ Below(b.essNiprPolicyEnforced, highRawPolicyThreshold),
                  Percent("NIPR Raw Policy", b.essNiprPolicyEnforced))
        s13 == Trigger(s12,
                  rawOn /\ Below(b.essSiprPolicyEnforced, highRawPolicyThreshold),
                  Percent("SIPR Raw Policy", b.essSiprPolicyEnforced))
        s14 == Trigger(s13,
                  Greater(OrElse(b.tamPastDue, Num(0)), highTamThreshold),
                  Plain("TAMs", b.tamPastDue))
    IN s14

\* the locals of the MED block
MedStart == [medConditionCount |-> 0, medReasons |-> <<>>, threw |-> FALSE]

\* if (c) { medConditionCount++; medReasons.push(r); }
Count(m, c, r) ==
    IF m.threw \/ ~c THEN m
    ELSE IF r = TypeError THEN [m EXCEPT !.medConditionCount = @ + 1, !.threw = TRUE]
    ELSE [m EXCEPT !.medConditionCount = @ + 1, !.medReasons = Append(@, r)]

\* the tally of the MED block
MedTally(b, t, tnow) ==
    LET isNmci == IsNmci(b)
        nAge == NiprAge(b, tnow)
        sAge == SiprAge(b, tnow)
        vphThreshold == OrElse(t.med_ra_vph, Num(350))
        complianceThreshold == OrElse(t.med_ess_compliance, Num(9500))
        truePolicyThreshold == OrElse(t.med_true_policy_compliance, Num(0))
        rawPolicyThreshold == OrElse(t.med_raw_policy_compliance, Num(0))
        scanThreshold == OrElse(t.med_scan_age_days, Num(1400))
        tamThreshold == OrElse(t.med_tam_past_due, Num(1000))
        trueOn == Greater(truePolicyThreshold, Num(0))
        rawOn == Greater(rawPolicyThreshold, Num(0))
        m1 == Count(MedStart,
                  ~isNmci /\ Above(b.vramNiprRaVph, vphThreshold),
                  Vph("NIPR VPH", b.vramNiprRaVph))
        m2 == Count(m1,
                  Above(b.vramSiprRaVph, vphThreshold),
                  Vph("SIPR VPH", b.vramSiprRaVph))
        m3 == Count(m2,
                  ~isNmci /\ Below(b.essNiprProductCompliance, complianceThreshold),
                  Percent("NIPR Prod", b.essNiprProductCompliance))
        m4 == Count(m3,
                  Below(b.essSiprProductCompliance, complianceThreshold),
                  Percent("SIPR Prod", b.essSiprProductCompliance))
        m5 == Count(m4,
                  trueOn /\ ~isNmci /\ Below(b.essNiprTruePolicy, truePolicyThreshold),
                  Percent("NIPR True Policy", b.essNiprTruePolicy))
        m6 == Count(m5,
                  trueOn /\ Below(b.essSiprTruePolicy, truePolicyThreshold),
                  Percent("SIPR True Policy", b.essSiprTruePolicy))
        m7 == Count(m6,
                  rawOn /\ ~isNmci /\ Below(b.essNiprPolicyEnforced, rawPolicyThreshold),
                  Percent("NIPR Raw Policy", b.essNiprPolicyEnforced))
        m8 == Count(m7,
                  rawOn /\ Below(b.essSiprPolicyEnforced, rawPolicyThreshold),
                  Percent("SIPR Raw Policy", b.essSiprPolicyEnforced))
        m9 == Count(m8,
                  ~isNmci /\ Above(nAge, scanThreshold),
                  Days("NIPR Scan", nAge))
        m10 == Count(m9,
                  Above(sAge, scanThreshold),
                  Days("SIPR Scan", sAge))
        m11 == Count(m10,
                  Greater(OrElse(b.tamPastDue, Num(0)), tamThreshold),
                  Plain("TAMs", b.tamPastDue))
    IN m11

\* the number of conditions that make an entity MED
MedConditionsNeeded == 2

\* a variant where a single condition makes an entity MED
MedStageOnAny(s, b, t, tnow) ==
    IF s.threw \/ s.level = "HIGH" THEN s
    ELSE LET m == MedTally(b, t, tnow)
         IN IF m.threw THEN [s EXCEPT !.threw = TRUE]
            ELSE IF m.medConditionCount >= 1
            THEN [s EXCEPT !.level = "MED", !.reasons = @ \o m.medReasons]
            ELSE s

\* If not already HIGH, check MEDIUM criteria
MedStage(s, b, t, tnow) ==
    IF s.threw \/ s.level = "HIGH" THEN s
    ELSE LET m == MedTally(b, t, tnow)
         IN IF m.threw THEN [s EXCEPT !.threw = TRUE]
            ELSE IF m.medConditionCount >= MedConditionsNeeded
            THEN [s EXCEPT !.level = "MED", !.reasons = @ \o m.medReasons]
            ELSE s

\* Check if LOW risk criteria are actually met
LowStage(s, b, t, tnow) ==
    IF s.threw \/ s.level # "LOW" THEN s
    ELSE
    LET isNmci == IsNmci(b)
        nAge == NiprAge(b, tnow)
        sAge == SiprAge(b, tnow)
        lowVphThreshold == OrElse(t.low_vph, Num(250))
        lowProductThreshold == OrElse(t.low_product_compliance, Num(9500))
        lowTruePolicyThreshold == OrElse(t.low_true_policy_compliance, Num(9500))
        lowRawPolicyThreshold == OrElse(t.low_raw_policy_compliance, Num(9500))
        lowScanThreshold == OrElse(t.low_scan_age_days, Num(1400))
        lowTamThreshold == OrElse(t.low_tam_past_due, Num(500))
        productCompEnabled == TRUE
        truePolicyEnabled == IsOne(Coalesce(t.low_true_policy_compliance_enabled, Num(0)))
        rawPolicyEnabled == IsOne(Coalesce(t.low_raw_policy_compliance_enabled, Num(0)))
        tamEnabled == IsOne(Coalesce(t.low_tam_past_due_enabled, Num(0)))
        nVph == ~isNmci /\ AtOrAbove(b.vramNiprRaVph, lowVphThreshold)
        sVph == AtOrAbove(b.vramSiprRaVph, lowVphThreshold)
        nProd == productCompEnabled /\ ~isNmci /\ Below(b.essNiprProductCompliance, lowProductThreshold)
        sProd == productCompEnabled /\ Below(b.essSiprProductCompliance, lowProductThreshold)
        nTrue == truePolicyEnabled /\ ~isNmci /\ Below(b.essNiprTruePolicy, lowTruePolicyThreshold)
        sTrue == truePolicyEnabled /\ Below(b.essSiprTruePolicy, lowTruePolicyThreshold)
        nRaw == rawPolicyEnabled /\ ~isNmci /\ Below(b.essNiprPolicyEnforced, lowRawPolicyThreshold)
        sRaw == rawPolicyEnabled /\ Below(b.essSiprPolicyEnforced, lowRawPolicyThreshold)
        nScan == ~isNmci /\ Above(nAge, lowScanThreshold)
        sScan == Above(sAge, lowScanThreshold)
        tam == tamEnabled /\ Greater(OrElse(b.tamPastDue, Num(0)), lowTamThreshold)
        meetsLowCriteria ==
            ~(nVph \/ sVph \/ nProd \/ sProd \/ nTrue \/ sTrue \/ nRaw \/ sRaw
              \/ nScan \/ sScan \/ tam)
        l0 == [s EXCEPT !.level = "MED"]
        l1 == PushIf(l0, nVph, Vph("NIPR VPH", b.vramNiprRaVph))
        l2 == PushIf(l1, sVph, Vph("SIPR VPH", b.vramSiprRaVph))
        l3 == PushIf(l2, nProd, Percent("NIPR Prod", b.essNiprProductCompliance))
        l4 == PushIf(l3, sProd, Percent("SIPR Prod", b.essSiprProductCompliance))
        l5 == PushIf(l4, nTrue, Percent("NIPR TruePolicy", b.essNiprTruePolicy))
        l6 == PushIf(l5, sTrue, Percent("SIPR TruePolicy", b.essSiprTruePolicy))
        l7 == PushIf(l6, nRaw, Percent("NIPR RawPolicy", b.essNiprPolicyEnforced))
        l8 == PushIf(l7, sRaw, Percent("SIPR RawPolicy", b.essSiprPolicyEnforced))
        l9 == PushIf(l8, nScan, Days("NIPR Scan", nAge))
        l10 == PushIf(l9, sScan, Days("SIPR Scan", sAge))
        l11 == PushIf(l10, tam, Plain("TAMs", b.tamPastDue))
    IN IF meetsLowCriteria THEN s ELSE l11

\* a variant where either flag suffices for every entity
isScanExemptEither(b) ==
    Truthy(b.vramNiprScanExempt) \/ Truthy(b.vramSiprScanExempt)

\* isScanExempt of the Scan Exempt Logic block
isScanExempt(b) ==
    IF Truthy(b.isNmci)
    THEN Truthy(b.vramNiprScanExempt) /\ Truthy(b.vramSiprScanExempt)
    ELSE Truthy(b.vramNiprScanExempt) \/ Truthy(b.vramSiprScanExempt)

\* a variant that exempts every entity, whatever its flags
ExemptStageForAll(s, b) ==
    IF s.threw \/ s.level # "HIGH" THEN s
    ELSE IF /\ s.highDueToNoScans
            /\ \A i \in 1..Len(s.reasons) : IncludesVramData(s.reasons[i])
    THEN [s EXCEPT !.level = "MED", !.reasons = Append(@, ScanExemptReason)]
    ELSE s

\* Scan Exempt Logic
ExemptStage(s, b) ==
    IF s.threw \/ s.level # "HIGH" THEN s
    ELSE IF /\ isScanExempt(b)
            /\ s.highDueToNoScans
            /\ \A i \in 1..Len(s.reasons) : IncludesVramData(s.reasons[i])
    THEN [s EXCEPT !.level = "MED", !.reasons = Append(@, ScanExemptReason)]
    ELSE s

\* what calculateRisk gives back: { level, reasons }, or an exception
Outcome(s) ==
    IF s.threw THEN [level |-> "none", reasons |-> <<>>, threw |-> TRUE]
    ELSE [level |-> s.level, reasons |-> s.reasons, threw |-> FALSE]

calculateRisk(b, th, tnow) ==
    LET t == ResolveThresholds(th)
        high == HighStage(b, t, tnow)
        med == MedStage(high, b, t, tnow)
        low == LowStage(med, b, t, tnow)
    IN Outcome(ExemptStage(low, b))

-----------------------------------------------------------------------------
(* Display tiers                                                           *)

\* (v, thresholds = defaultThresholds): the default replaces undefined only
DefaultParam(th) == IF th.k = "undefined" THEN defaultThresholds ELSE th.cfg

\* the tier of a VPH value; reading a key of null is a TypeError
vphClass(v, th) ==
    IF v.k \in {"null", "undefined"} THEN ""
    ELSE IF th.k = "null" THEN "TypeError"
    ELSE LET greenThreshold == OrElse(DefaultParam(th).color_vph_green, Num(250))
             redThreshold == OrElse(DefaultParam(th).color_vph_red, Num(350))
         IN IF LessEq(v, greenThreshold) THEN "risk-low"
            ELSE IF Greater(v, redThreshold) THEN "risk-high"
            ELSE "risk-med"

-----------------------------------------------------------------------------
(* Entity records: the factories of the data model                         *)

createBoatData(isNmci) ==
    [isNmci |-> isNmci,
     essNiprBreakfix |-> Null,
     essNiprProductCompliance |-> Null,
     essNiprPolicyEnforced |-> Null,
     essNiprTruePolicy |-> Null,
     essSiprBreakfix |-> Null,
     essSiprProductCompliance |-> Null,
     essSiprPolicyEnforced |-> Null,
     essSiprTruePolicy |-> Null,
     vramNiprAssets |-> Null,
     vramNiprScanDate |-> Null,
     vramNiprRaVph |-> Null,
     vramNiprScanExempt |-> Bool(FALSE),
     vramSiprAssets |-> Null,
     vramSiprScanDate |-> Null,
     vramSiprRaVph |-> Null,
     vramSiprScanExempt |-> Bool(FALSE),
     tamPastDue |-> Null]

BoatFields == DOMAIN createBoatData(Bool(FALSE))

\* { ...base, ...overrides }
Override(base, overrides) ==
    [f \in DOMAIN base |-> IF f \in DOMAIN overrides THEN overrides[f] ELSE base[f]]

createTestBoat == createBoatData(Bool(FALSE))

createHealthyBoat(tnow) ==
    Override(createBoatData(Bool(FALSE)),
        [essNiprBreakfix |-> Num(0),
         essNiprProductCompliance |-> Num(9800),
         essNiprPolicyEnforced |-> Num(9800),
         essNiprTruePolicy |-> Num(9604),
         essSiprBreakfix |-> Num(0),
         essSiprProductCompliance |-> Num(9900),
         essSiprPolicyEnforced |-> Num(9900),
         essSiprTruePolicy |-> Num(9801),
         vramNiprAssets |-> Num(10000),
         vramNiprScanDate |-> DateStr(tnow - 500),
         vramNiprRaVph |-> Num(150),
         vramSiprAssets |-> Num(5000),
         vramSiprScanDate |-> DateStr(tnow - 500),
         vramSiprRaVph |-> Num(120),
         tamPastDue |-> Num(200)])

createNoVramBoat ==
    Override(createBoatData(Bool(FALSE)),
        [essNiprBreakfix |-> Num(0),
         essNiprProductCompliance |-> Num(9800),
         essNiprPolicyEnforced |-> Num(9800),
         essNiprTruePolicy |-> Num(9604),
         essSiprBreakfix |-> Num(0),
         essSiprProductCompliance |-> Num(9900),
         essSiprPolicyEnforced |-> Num(9900),
         essSiprTruePolicy |-> Num(9801)])

createNmciBoat(tnow) ==
    Override(createHealthyBoat(tnow), [isNmci |-> Bool(TRUE)])

\* the record {}: every field reads as undefined
EmptyBoat == [f \in BoatFields |-> Undef]

\* the NMCI boat without SIPR VRAM data of the scan-exempt test
NmciNoSiprVramBoat(tnow) ==
    Override(createNmciBoat(tnow),
        [vramSiprAssets |-> Null,
         vramSiprScanDate |-> Null,
         vramSiprRaVph |-> Null,
         vramNiprScanExempt |-> Bool(TRUE),
         vramSiprScanExempt |-> Bool(FALSE)])

-----------------------------------------------------------------------------
(* Inputs: a record and a configuration built by the caller                *)

\* the number of fields and keys the caller changes in a base input
MaxEdits == 2

EvaluationTimes == {2076050}

BaseBoats(tnow) ==
    {createTestBoat, createHealthyBoat(tnow), createNoVramBoat,
     NmciNoSiprVramBoat(tnow), EmptyBoat}

\* well-typed values a caller reports for a field
FieldValues(f, tnow) ==
    CASE f = "isNmci" -> {Bool(TRUE), Bool(FALSE)}
      [] f \in {"essNiprBreakfix", "essSiprBreakfix"} -> {Num(0), Num(300)}
      [] f \in {"essNiprProductCompliance", "essSiprProductCompliance"} ->
            {Num(4000), Num(9400), Num(9500)}
      [] f \in {"essNiprTruePolicy", "essSiprTruePolicy"} -> {Num(8500), Num(9400)}
      [] f \in {"essNiprPolicyEnforced", "essSiprPolicyEnforced"} -> {Num(8500), Num(9400)}
      [] f \in {"vramNiprRaVph", "vramSiprRaVph"} -> {Num(250), Num(400), Num(600), Num(100000)}
      [] f \in {"vramNiprScanDate", "vramSiprScanDate"} ->
            {DateStr(tnow - 1450), DateStr(tnow - 2050), DateStr(tnow - 4550),
             DateStr(tnow - 100050)}
      [] f \in {"vramNiprAssets", "vramSiprAssets"} -> {Num(0)}
      [] f \in {"vramNiprScanExempt", "vramSiprScanExempt"} -> {Bool(TRUE), Bool(FALSE)}
      [] OTHER -> {Num(700), Num(1500), Num(2500)}

\* the switches of the LOW criteria
ToggleKeys ==
    {"low_true_policy_compliance_enabled", "low_raw_policy_compliance_enabled",
     "low_tam_past_due_enabled"}

\* the keys calculateRisk reads
RiskKeys ==
    {"low_vph", "low_scan_age_days", "low_product_compliance",
     "low_true_policy_compliance", "low_raw_policy_compliance", "low_tam_past_due",
     "med_ra_vph", "med_ess_compliance", "med_scan_age_days", "med_tam_past_due",
     "med_true_policy_compliance", "med_raw_policy_compliance",
     "auto_high_ra_vph", "auto_high_scan_age_days", "high_ess_compliance",
     "high_raw_policy_compliance", "high_product_compliance", "high_tam_past_due",
     "low_product_compliance_enabled"} \cup ToggleKeys

\* the keys of the display tiers that the caller changes
DisplayKeys == {"color_vph_green"}

\* finite values a caller configures for a key
KeyValues(key) ==
    CASE key \in ToggleKeys -> {Num(100), Num(200), NumStr(100), Bool(TRUE), Undef}
      [] key = "low_product_compliance_enabled" -> {Num(0)}
      [] key = "color_vph_green" -> {Num(400)}
      [] key = "low_vph" -> {Num(0), Num(400)}
      [] key = "low_scan_age_days" -> {Num(2000)}
      [] key = "low_product_compliance" -> {Num(9000)}
      [] key = "low_true_policy_compliance" -> {Num(9000)}
      [] key = "low_raw_policy_compliance" -> {Num(9000)}
      [] key = "low_tam_past_due" -> {Num(1000)}
      [] key = "med_ra_vph" -> {Num(0), Num(200)}
      [] key = "med_ess_compliance" -> {Num(9000)}
      [] key = "med_scan_age_days" -> {Num(2000)}
      [] key = "med_tam_past_due" -> {Num(500)}
      [] key = "med_true_policy_compliance" -> {Num(0)}
      [] key = "med_raw_policy_compliance" -> {Num(9500)}
      [] key = "auto_high_ra_vph" -> {Num(0), Num(500)}
      [] key = "auto_high_scan_age_days" -> {Num(3000)}
      [] key = "high_ess_compliance" -> {Num(0), Undef}
      [] key = "high_raw_policy_compliance" -> {Num(9000)}
      [] key = "high_product_compliance" -> {Num(9500)}
      [] OTHER -> {Num(0), Num(1000)}

\* settings = { isics: [] }: the registry of group descriptors, empty
NoSettings == [isics |-> <<>>]

NoResult == [level |-> "none", reasons |-> <<>>, threw |-> FALSE]

Init ==
    /\ now \in EvaluationTimes
    /\ settings = NoSettings
    /\ boat \in BaseBoats(now)
    /\ thresholds = ConfigObject(defaultThresholds)
    /\ edits = 0
    /\ pc = "input"
    /\ result = NoResult

\* the caller reports another value for one field of the record
SetField ==
    /\ pc = "input"
    /\ edits < MaxEdits
    /\ \E f \in BoatFields : \E v \in FieldValues(f, now) :
          /\ boat[f] # v
          /\ boat' = [boat EXCEPT ![f] = v]
    /\ edits' = edits + 1
    /\ UNCHANGED <<thresholds, now, pc, result, settings>>

\* the caller configures another value for one key
SetThreshold ==
    /\ pc = "input"
    /\ edits < MaxEdits
    /\ thresholds.k = "object"
    /\ \E key \in RiskKeys \cup DisplayKeys : \E v \in KeyValues(key) :
          /\ thresholds.cfg[key] # v
          /\ thresholds' = [thresholds EXCEPT !.cfg[key] = v]
    /\ edits' = edits + 1
    /\ UNCHANGED <<boat, now, pc, result, settings>>

\* const { level, reasons } = calculateRisk(boat, thresholds)
Classify ==
    /\ pc = "input"
    /\ result' = calculateRisk(boat, thresholds, now)
    /\ pc' = "done"
    /\ UNCHANGED <<boat, thresholds, now, edits, settings>>

Next == SetField \/ SetThreshold \/ Classify

Spec == Init /\ [][Next]_vars

-----------------------------------------------------------------------------
(* Malformed inputs: the records and configurations of the fuzz tests      *)

FuzzBoats(tnow) == {EmptyBoat, createHealthyBoat(tnow)}

FuzzThresholds ==
    {NullThresholds, UndefThresholds, ConfigObject(EmptyConfig),
     ConfigObject(defaultThresholds)}

\* fields that hold a number
NumericFields ==
    {"essNiprBreakfix", "essSiprBreakfix", "essNiprProductCompliance",
     "essSiprProductCompliance", "essNiprTruePolicy", "essSiprTruePolicy",
     "essNiprPolicyEnforced", "essSiprPolicyEnforced", "vramNiprRaVph",
     "vramSiprRaVph", "tamPastDue"}

\* wrong-typed, NaN and infinite values of a field
FuzzValues(f) ==
    CASE f = "isNmci" -> {Null, BadStr}
      [] f \in NumericFields -> {NumStr(300), BadStr, Obj, NaN, PosInf, NegInf}
      [] f \in {"vramNiprScanDate", "vramSiprScanDate"} -> {BadStr, Obj}
      [] OTHER -> {BadStr}

\* keys that are given a non-numeric value
FuzzKeys ==
    {"low_vph", "med_ra_vph", "high_tam_past_due", "low_product_compliance",
     "high_ess_compliance", "low_tam_past_due_enabled"}

\* non-numeric values of a key
FuzzKeyValues == {BadStr, NaN, PosInf}

InitFuzz ==
    /\ now \in EvaluationTimes
    /\ settings = NoSettings
    /\ boat \in FuzzBoats(now)
    /\ thresholds \in FuzzThresholds
    /\ edits = 0
    /\ pc = "input"
    /\ result = NoResult

\* the record carries a malformed value in one field
CorruptField ==
    /\ pc = "input"
    /\ edits < MaxEdits
    /\ \E f \in BoatFields : \E v \in FuzzValues(f) :
          /\ boat[f] # v
          /\ boat' = [boat EXCEPT ![f] = v]
    /\ edits' = edits + 1
    /\ UNCHANGED <<thresholds, now, pc, result, settings>>

\* the configuration carries a non-numeric value under one key
CorruptThreshold ==
    /\ pc = "input"
    /\ edits < MaxEdits
    /\ thresholds.k = "object"
    /\ \E key \in FuzzKeys : \E v \in FuzzKeyValues :
          /\ thresholds.cfg[key] # v
          /\ thresholds' = [thresholds EXCEPT !.cfg[key] = v]
    /\ edits' = edits + 1
    /\ UNCHANGED <<boat, now, pc, result, settings>>

NextFuzz == CorruptField \/ CorruptThreshold \/ Classify

SpecFuzz == InitFuzz /\ [][NextFuzz]_vars

-----------------------------------------------------------------------------
(* Claims                                                                  *)

\* C1: calculateRisk never throws and always returns a {level, reasons}
\* result, whatever malformed values the record and the thresholds carry.
NeverThrows ==
    pc = "done" =>
        /\ ~result.threw
        /\ result.level \in {"HIGH", "MED", "LOW"}

(* The claims below speak of well-formed records: a field holds a number,  *)
(* a flag or a timestamp, or it is absent.  They are stated on the plain   *)
(* numbers, not on the JavaScript comparisons of the code.                 *)

\* the labels of the reasons of the result, in order
Labels == [i \in 1..Len(result.reasons) |-> result.reasons[i].label]

HasLabel(l) == \E i \in 1..Len(result.reasons) : result.reasons[i].label = l

\* the field reports a number
Reported(f) == boat[f].k = "number"

\* the threshold in effect for a key: the configured number, or the literal
\* fallback of the lookup when the key is missing or configured as 0
InEffect(key, fallback) ==
    LET v == ResolveThresholds(thresholds)[key]
    IN IF v.k = "number" /\ v.n # 0 THEN v.n ELSE fallback

FieldBelow(f, x) == Reported(f) /\ boat[f].n < x
FieldAbove(f, x) == Reported(f) /\ boat[f].n > x
FieldAtLeast(f, x) == Reported(f) /\ boat[f].n >= x

\* whole days since the timestamp of a field, in hundredths; -1 when the
\* field holds no timestamp or one in the future
AgeOf(f) ==
    IF boat[f].k = "date" /\ boat[f].n <= now
    THEN ((now - boat[f].n) \div 100) * 100
    ELSE -1

\* the entity is in single-network mode: its NIPR fields are excluded
SingleNetwork == boat.isNmci = Bool(TRUE)

\* the stage-1 HIGH triggers in their fixed order, each with its condition;
\* a presence signal counts as given when the field is not null
Stage1Triggers ==
    LET prod == InEffect("high_product_compliance", 5000)
        vph == InEffect("auto_high_ra_vph", 500)
        scan == InEffect("auto_high_scan_age_days", 3000)
        ess == InEffect("high_ess_compliance", 0)
        raw == InEffect("high_raw_policy_compliance", 0)
        tam == InEffect("high_tam_past_due", 2000)
        niprSignal == \E f \in {"vramNiprScanDate", "vramNiprRaVph", "vramNiprAssets"} :
                          boat[f] # Null
        siprSignal == \E f \in {"vramSiprScanDate", "vramSiprRaVph", "vramSiprAssets"} :
                          boat[f] # Null
    IN << [label |-> "NIPR Breakfix",
           fires |-> ~SingleNetwork /\ FieldAbove("essNiprBreakfix", 0)],
          [label |-> "SIPR Breakfix",
           fires |-> FieldAbove("essSiprBreakfix", 0)],
          [label |-> "No VRAM data",
           fires |-> IF SingleNetwork THEN ~siprSignal ELSE ~niprSignal /\ ~siprSignal],
          [label |-> "NIPR Prod",
           fires |-> ~SingleNetwork /\ FieldBelow("essNiprProductCompliance", prod)],
          [label |-> "SIPR Prod",
           fires |-> FieldBelow("essSiprProductCompliance", prod)],
          [label |-> "NIPR VPH",
           fires |-> ~SingleNetwork /\ FieldAbove("vramNiprRaVph", vph)],
          [label |-> "SIPR VPH",
           fires |-> FieldAbove("vramSiprRaVph", vph)],
          [label |-> "NIPR Scan",
           fires |-> ~SingleNetwork /\ AgeOf("vramNiprScanDate") > scan],
          [label |-> "SIPR Scan",
           fires |-> AgeOf("vramSiprScanDate") > scan],
          [label |-> "NIPR True Policy",
           fires |-> ~SingleNetwork /\ FieldBelow("essNiprTruePolicy", ess)],
          [label |-> "SIPR True Policy",
           fires |-> FieldBelow("essSiprTruePolicy", ess)],
          [label |-> "NIPR Raw Policy",
           fires |-> ~SingleNetwork /\ FieldBelow("essNiprPolicyEnforced", raw)],
          [label |-> "SIPR Raw Policy",
           fires |-> FieldBelow("essSiprPolicyEnforced", raw)],
          [label |-> "TAMs",
           fires |-> FieldAbove("tamPastDue", tam)] >>

Fires(e) == e.fires

\* the labels of the entries of a table whose condition holds, in order
FiredLabels(table) ==
    LET fired == SelectSeq(table, Fires)
    IN [i \in 1..Len(fired) |-> fired[i].label]

Stage1Fired == FiredLabels(Stage1Triggers)

\* C2: when a stage-1 trigger fires, the reasons are exactly the reasons of
\* all fired stage-1 triggers in the fixed order, followed at most by
\* 'Scan Exempt'; no reason of the MED or LOW stage is among them.
Stage1CollectsAll ==
    pc = "done" /\ Stage1Fired # <<>> =>
        /\ ~result.threw
        /\ \/ Labels = Stage1Fired
           \/ Labels = Append(Stage1Fired, "Scan Exempt")

\* C2 witness: two triggers of different kinds fired and both are reported
Stage1CollectsAllWitness ==
    /\ pc = "done"
    /\ result.level = "HIGH"
    /\ Len(Stage1Fired) >= 2
    /\ Stage1Fired[1] = "NIPR Breakfix"
    /\ Labels = Stage1Fired

\* the fields of the network that single-network mode excludes
NiprFields ==
    {"essNiprBreakfix", "essNiprProductCompliance", "essNiprPolicyEnforced",
     "essNiprTruePolicy", "vramNiprAssets", "vramNiprScanDate", "vramNiprRaVph",
     "vramNiprScanExempt"}

\* the reasons that refer to the excluded network
NiprLabels ==
    {"NIPR Breakfix", "NIPR Prod", "NIPR VPH", "NIPR Scan", "NIPR True Policy",
     "NIPR Raw Policy", "NIPR TruePolicy", "NIPR RawPolicy"}

\* the record with the given fields blank, as createBoatData leaves them
Blanked(b, fields) ==
    [f \in DOMAIN b |-> IF f \in fields THEN createBoatData(b.isNmci)[f] ELSE b[f]]

\* C3 as stated: for an entity in single-network mode no NIPR field, the
\* scan-exempt flag included, has any influence on the level or the reasons,
\* and no reason refers to NIPR.
ExcludedNetworkIgnored ==
    pc = "done" /\ SingleNetwork =>
        /\ result = calculateRisk(Blanked(boat, NiprFields), thresholds, now)
        /\ \A l \in NiprLabels : ~HasLabel(l)

\* C3 amended: for an entity in single-network mode no NIPR field other than
\* the scan-exempt flag has any influence on the level or the reasons, and no
\* reason refers to NIPR; the NIPR scan-exempt flag still decides, together
\* with the SIPR one, whether the exemption applies.
ExcludedNetworkIgnoredButExemptFlag ==
    pc = "done" /\ SingleNetwork =>
        /\ result = calculateRisk(Blanked(boat, NiprFields \ {"vramNiprScanExempt"}),
                                  thresholds, now)
        /\ \A l \in NiprLabels : ~HasLabel(l)

\* C3 witness: a single-network entity reports a NIPR breakfix, which is a
\* HIGH trigger for any other entity, and is classified LOW
ExcludedNetworkIgnoredWitness ==
    /\ pc = "done"
    /\ SingleNetwork
    /\ FieldAbove("essNiprBreakfix", 0)
    /\ result.level = "LOW"

\* the entity is eligible for the scan exemption
Eligible ==
    IF SingleNetwork
    THEN boat.vramNiprScanExempt = Bool(TRUE) /\ boat.vramSiprScanExempt = Bool(TRUE)
    ELSE boat.vramNiprScanExempt = Bool(TRUE) \/ boat.vramSiprScanExempt = Bool(TRUE)

\* C4: a HIGH result is downgraded to MED with reasons exactly
\* ['No VRAM data', 'Scan Exempt'] exactly when the entity is eligible and
\* 'No VRAM data' is the only trigger that fired; in every other case a HIGH
\* level stays HIGH and 'Scan Exempt' is not a reason.
ExemptDowngrade ==
    pc = "done" =>
        IF Eligible /\ Stage1Fired = <<"No VRAM data">>
        THEN /\ result.level = "MED"
             /\ Labels = <<"No VRAM data", "Scan Exempt">>
        ELSE /\ ~HasLabel("Scan Exempt")
             /\ Stage1Fired # <<>> => result.level = "HIGH"

\* C4 witness: a single-network entity with both flags set is downgraded
ExemptDowngradeWitness ==
    /\ pc = "done"
    /\ SingleNetwork
    /\ Eligible
    /\ result.level = "MED"
    /\ Labels = <<"No VRAM data", "Scan Exempt">>

\* no field of the set reports a value: each is null or missing
NoSignal(fields) == \A f \in fields : boat[f].k \in {"null", "undefined"}

\* C5: 'No VRAM data' is a reason exactly when no presence signal (scan
\* date, VPH, asset count) is reported on any required network, a field
\* counting as not reported whether it is null or missing from the record.
NoTelemetryTrigger ==
    pc = "done" =>
        (HasLabel("No VRAM data") <=>
            IF SingleNetwork
            THEN NoSignal({"vramSiprScanDate", "vramSiprRaVph", "vramSiprAssets"})
            ELSE NoSignal({"vramNiprScanDate", "vramNiprRaVph", "vramNiprAssets",
                           "vramSiprScanDate", "vramSiprRaVph", "vramSiprAssets"}))

\* the MED predicates in the order of the tally, each with its condition
MedPredicates ==
    LET vph == InEffect("med_ra_vph", 350)
        comp == InEffect("med_ess_compliance", 9500)
        tp == InEffect("med_true_policy_compliance", 0)
        raw == InEffect("med_raw_policy_compliance", 0)
        scan == InEffect("med_scan_age_days", 1400)
        tam == InEffect("med_tam_past_due", 1000)
    IN << [label |-> "NIPR VPH",
           fires |-> ~SingleNetwork /\ FieldAbove("vramNiprRaVph", vph)],
          [label |-> "SIPR VPH",
           fires |-> FieldAbove("vramSiprRaVph", vph)],
          [label |-> "NIPR Prod",
           fires |-> ~SingleNetwork /\ FieldBelow("essNiprProductCompliance", comp)],
          [label |-> "SIPR Prod",
           fires |-> FieldBelow("essSiprProductCompliance", comp)],
          [label |-> "NIPR True Policy",
           fires |-> tp # 0 /\ ~SingleNetwork /\ FieldBelow("essNiprTruePolicy", tp)],
          [label |-> "SIPR True Policy",
           fires |-> tp # 0 /\ FieldBelow("essSiprTruePolicy", tp)],
          [label |-> "NIPR Raw Policy",
           fires |-> raw # 0 /\ ~SingleNetwork /\ FieldBelow("essNiprPolicyEnforced", raw)],
          [label |-> "SIPR Raw Policy",
           fires |-> raw # 0 /\ FieldBelow("essSiprPolicyEnforced", raw)],
          [label |-> "NIPR Scan",
           fires |-> ~SingleNetwork /\ AgeOf("vramNiprScanDate") > scan],
          [label |-> "SIPR Scan",
           fires |-> AgeOf("vramSiprScanDate") > scan],
          [label |-> "TAMs",
           fires |-> FieldAbove("tamPastDue", tam)] >>

MedSatisfied == FiredLabels(MedPredicates)

\* the result of the stages without the MED block
WithoutMedStage ==
    LET t == ResolveThresholds(thresholds)
        high == HighStage(boat, t, now)
    IN Outcome(ExemptStage(LowStage(high, boat, t, now), boat))

\* C6: when no stage-1 trigger fires, the MED predicates are tallied with
\* each network counted separately and the TAM predicate once; a tally of 2
\* or more gives MED with exactly the satisfied predicates as reasons, a
\* tally of 0 or 1 leaves level and reasons as if the stage were absent.
MedTallyDecides ==
    pc = "done" /\ Stage1Fired = <<>> =>
        IF Len(MedSatisfied) >= 2
        THEN /\ result.level = "MED"
             /\ Labels = MedSatisfied
        ELSE result = WithoutMedStage

\* C6 witness: two predicates are satisfied, one of them the TAM predicate
\* that only the MED tally reads by default, and the entity is MED
MedTallyDecidesWitness ==
    /\ pc = "done"
    /\ Stage1Fired = <<>>
    /\ Len(MedSatisfied) = 2
    /\ MedSatisfied[2] = "TAMs"
    /\ result.level = "MED"
    /\ Labels = MedSatisfied

\* the run reached the LOW validation: no trigger fired, fewer than 2 counted
AtLowStage == pc = "done" /\ Stage1Fired = <<>> /\ Len(MedSatisfied) < 2

\* the toggle of a LOW criterion is exactly the number 1
ToggleOn(key) == ResolveThresholds(thresholds)[key] = Num(100)

\* the required LOW checks in the order of their reasons, each with the
\* condition under which it fails
LowChecks ==
    LET vph == InEffect("low_vph", 250)
        prod == InEffect("low_product_compliance", 9500)
        tp == InEffect("low_true_policy_compliance", 9500)
        raw == InEffect("low_raw_policy_compliance", 9500)
        scan == InEffect("low_scan_age_days", 1400)
        tam == InEffect("low_tam_past_due", 500)
        tpOn == ToggleOn("low_true_policy_compliance_enabled")
        rawOn == ToggleOn("low_raw_policy_compliance_enabled")
        tamOn == ToggleOn("low_tam_past_due_enabled")
    IN << [label |-> "NIPR VPH",
           fires |-> ~SingleNetwork /\ FieldAtLeast("vramNiprRaVph", vph)],
          [label |-> "SIPR VPH",
           fires |-> FieldAtLeast("vramSiprRaVph", vph)],
          [label |-> "NIPR Prod",
           fires |-> ~SingleNetwork /\ FieldBelow("essNiprProductCompliance", prod)],
          [label |-> "SIPR Prod",
           fires |-> FieldBelow("essSiprProductCompliance", prod)],
          [label |-> "NIPR TruePolicy",
           fires |-> tpOn /\ ~SingleNetwork /\ FieldBelow("essNiprTruePolicy", tp)],
          [label |-> "SIPR TruePolicy",
           fires |-> tpOn /\ FieldBelow("essSiprTruePolicy", tp)],
          [label |-> "NIPR RawPolicy",
           fires |-> rawOn /\ ~SingleNetwork /\ FieldBelow("essNiprPolicyEnforced", raw)],
          [label |-> "SIPR RawPolicy",
           fires |-> rawOn /\ FieldBelow("essSiprPolicyEnforced", raw)],
          [label |-> "NIPR Scan",
           fires |-> ~SingleNetwork /\ AgeOf("vramNiprScanDate") > scan],
          [label |-> "SIPR Scan",
           fires |-> AgeOf("vramSiprScanDate") > scan],
          [label |-> "TAMs",
           fires |-> tamOn /\ FieldAbove("tamPastDue", tam)] >>

LowFailed == FiredLabels(LowChecks)

\* the fields and the LOW-stage reasons of each network
NIPR ==
    [vph |-> "vramNiprRaVph", prod |-> "essNiprProductCompliance",
     truePolicy |-> "essNiprTruePolicy", rawPolicy |-> "essNiprPolicyEnforced",
     scanDate |-> "vramNiprScanDate",
     vphLabel |-> "NIPR VPH", prodLabel |-> "NIPR Prod",
     trueLabel |-> "NIPR TruePolicy", rawLabel |-> "NIPR RawPolicy",
     scanLabel |-> "NIPR Scan"]

SIPR ==
    [vph |-> "vramSiprRaVph", prod |-> "essSiprProductCompliance",
     truePolicy |-> "essSiprTruePolicy", rawPolicy |-> "essSiprPolicyEnforced",
     scanDate |-> "vramSiprScanDate",
     vphLabel |-> "SIPR VPH", prodLabel |-> "SIPR Prod",
     trueLabel |-> "SIPR TruePolicy", rawLabel |-> "SIPR RawPolicy",
     scanLabel |-> "SIPR Scan"]

\* the networks whose fields are read for the entity
Applicable == IF SingleNetwork THEN {SIPR} ELSE {NIPR, SIPR}

FieldEquals(f, x) == Reported(f) /\ boat[f].n = x

\* C7: in the LOW validation a VPH exactly equal to low_vph fails the check
\* and the entity becomes MED, a compliance percentage exactly equal to its
\* LOW threshold passes; vphClass gives a VPH exactly equal to its green
\* threshold the best tier 'risk-low'.
LowBoundaries ==
    \A net \in Applicable :
        /\ AtLowStage /\ FieldEquals(net.vph, InEffect("low_vph", 250)) =>
              result.level = "MED" /\ HasLabel(net.vphLabel)
        /\ AtLowStage /\ FieldEquals(net.prod, InEffect("low_product_compliance", 9500)) =>
              ~HasLabel(net.prodLabel)
        /\ AtLowStage /\ FieldEquals(net.truePolicy, InEffect("low_true_policy_compliance", 9500)) =>
              ~HasLabel(net.trueLabel)
        /\ AtLowStage /\ FieldEquals(net.rawPolicy, InEffect("low_raw_policy_compliance", 9500)) =>
              ~HasLabel(net.rawLabel)
        /\ pc = "done" /\ FieldEquals(net.vph, InEffect("color_vph_green", 250)) =>
              vphClass(boat[net.vph], thresholds) = "risk-low"

\* C7 witness: the NIPR VPH equals low_vph and the green threshold, the NIPR
\* product compliance equals its LOW threshold; the entity is MED for the VPH
\* alone and the VPH is shown in the best tier
LowBoundariesWitness ==
    /\ AtLowStage
    /\ FieldEquals("vramNiprRaVph", InEffect("low_vph", 250))
    /\ FieldEquals("vramNiprRaVph", InEffect("color_vph_green", 250))
    /\ FieldEquals("essNiprProductCompliance", InEffect("low_product_compliance", 9500))
    /\ result.level = "MED"
    /\ Labels = <<"NIPR VPH">>
    /\ vphClass(boat.vramNiprRaVph, thresholds) = "risk-low"

\* C8 as stated: the scan age is checked strictly in the LOW validation; an
\* entity stays LOW only if every applicable scan age is less than
\* low_scan_age_days, an age exactly equal to it makes the entity MED.
ScanAgeStrict ==
    \A net \in Applicable :
        AtLowStage /\ AgeOf(net.scanDate) >= InEffect("low_scan_age_days", 1400) =>
            result.level = "MED"

\* C8 amended: the scan age check of the LOW validation fails only above the
\* threshold: an age greater than low_scan_age_days makes the entity MED with
\* a scan reason, an age less than or exactly equal to it passes.
ScanAgeAtMost ==
    \A net \in Applicable :
        /\ AtLowStage /\ AgeOf(net.scanDate) > InEffect("low_scan_age_days", 1400) =>
              result.level = "MED" /\ HasLabel(net.scanLabel)
        /\ AtLowStage /\ AgeOf(net.scanDate) \in 0..InEffect("low_scan_age_days", 1400) =>
              ~HasLabel(net.scanLabel)

\* C8 witness: the NIPR scan age equals low_scan_age_days and the entity is LOW
ScanAgeAtMostWitness ==
    /\ AtLowStage
    /\ ~SingleNetwork
    /\ AgeOf("vramNiprScanDate") = InEffect("low_scan_age_days", 1400)
    /\ result.level = "LOW"

\* the record without the values of the given fields
Without(fields) == Blanked(boat, fields)

\* C9: in the LOW validation the VPH and product checks always apply; the
\* true-policy, raw-policy and TAM checks apply only when their toggle is
\* exactly the number 1, and with any other toggle value the metric neither
\* changes the level nor adds a reason.
TogglesExactlyOne ==
    /\ \A net \in Applicable :
          /\ AtLowStage /\ FieldAtLeast(net.vph, InEffect("low_vph", 250)) =>
                result.level = "MED" /\ HasLabel(net.vphLabel)
          /\ AtLowStage /\ FieldBelow(net.prod, InEffect("low_product_compliance", 9500)) =>
                result.level = "MED" /\ HasLabel(net.prodLabel)
          /\ /\ AtLowStage
             /\ ToggleOn("low_true_policy_compliance_enabled")
             /\ FieldBelow(net.truePolicy, InEffect("low_true_policy_compliance", 9500))
             => result.level = "MED" /\ HasLabel(net.trueLabel)
          /\ /\ AtLowStage
             /\ ToggleOn("low_raw_policy_compliance_enabled")
             /\ FieldBelow(net.rawPolicy, InEffect("low_raw_policy_compliance", 9500))
             => result.level = "MED" /\ HasLabel(net.rawLabel)
    /\ /\ AtLowStage
       /\ ToggleOn("low_tam_past_due_enabled")
       /\ FieldAbove("tamPastDue", InEffect("low_tam_past_due", 500))
       => result.level = "MED" /\ HasLabel("TAMs")
    /\ AtLowStage /\ ~ToggleOn("low_true_policy_compliance_enabled") =>
          result = calculateRisk(Without({"essNiprTruePolicy", "essSiprTruePolicy"}),
                                 thresholds, now)
    /\ AtLowStage /\ ~ToggleOn("low_raw_policy_compliance_enabled") =>
          result = calculateRisk(Without({"essNiprPolicyEnforced", "essSiprPolicyEnforced"}),
                                 thresholds, now)
    /\ AtLowStage /\ ~ToggleOn("low_tam_past_due_enabled") =>
          result = calculateRisk(Without({"tamPastDue"}), thresholds, now)

\* C9 witness: the TAM toggle is configured as 2, the past-due count is above
\* low_tam_past_due, and the entity is LOW
TogglesExactlyOneWitness ==
    /\ AtLowStage
    /\ ResolveThresholds(thresholds).low_tam_past_due_enabled = Num(200)
    /\ FieldAbove("tamPastDue", InEffect("low_tam_past_due", 500))
    /\ result.level = "LOW"

\* C10: in the LOW validation a failing required check makes the level MED,
\* never HIGH, with exactly the failing checks as reasons, one per failing
\* network instance; when every check passes the level stays LOW and there
\* is no reason.
LowValidation ==
    AtLowStage =>
        /\ Labels = LowFailed
        /\ result.level = IF LowFailed = <<>> THEN "LOW" ELSE "MED"

\* C10 witness: the same check fails on both networks and both are reported
LowValidationWitness ==
    /\ AtLowStage
    /\ result.level = "MED"
    /\ Labels = <<"NIPR VPH", "SIPR VPH">>

-----------------------------------------------------------------------------
(* A classified entity is changed and classified again                     *)

NoTelemetry ==
    [vramNiprAssets |-> Null, vramNiprScanDate |-> Null, vramNiprRaVph |-> Null,
     vramSiprAssets |-> Null, vramSiprScanDate |-> Null, vramSiprRaVph |-> Null]

NoSiprTelemetry ==
    [vramSiprAssets |-> Null, vramSiprScanDate |-> Null, vramSiprRaVph |-> Null]

\* the changes of a record that can make one stage-1 trigger condition hold
TriggerChanges(tnow) ==
    {[essNiprBreakfix |-> Num(100)], [essSiprBreakfix |-> Num(100)],
     NoTelemetry, NoSiprTelemetry,
     [essNiprProductCompliance |-> Num(4000)], [essSiprProductCompliance |-> Num(4000)],
     [essNiprTruePolicy |-> Num(8500)], [essSiprTruePolicy |-> Num(8500)],
     [essNiprPolicyEnforced |-> Num(8500)], [essSiprPolicyEnforced |-> Num(8500)],
     [vramNiprRaVph |-> Num(600)], [vramSiprRaVph |-> Num(600)],
     [vramNiprScanDate |-> DateStr(tnow - 4550)],
     [vramSiprScanDate |-> DateStr(tnow - 4550)],
     [tamPastDue |-> Num(2500)]}

\* { ...lowBoat, essNiprBreakfix: 1 }: an entity classified LOW is changed so
\* that exactly one stage-1 trigger condition holds, and classified again
AddTrigger ==
    /\ pc = "done"
    /\ result.level = "LOW"
    /\ UNCHANGED <<thresholds, now, edits, settings>>
    /\ \E c \in TriggerChanges(now) :
          /\ boat' = Override(boat, c)
          /\ Len(Stage1Fired)' = 1
    /\ result' = calculateRisk(boat', thresholds, now)
    /\ pc' = "changed"

NextTrigger == SetField \/ SetThreshold \/ Classify \/ AddTrigger

SpecTrigger == Init /\ [][NextTrigger]_vars

\* C11 as stated: changing an entity classified LOW so that exactly one
\* stage-1 trigger condition holds makes calculateRisk return HIGH.
OneTriggerForcesHigh ==
    pc = "changed" => result.level = "HIGH"

\* C11 amended: changing an entity classified LOW so that exactly one
\* stage-1 trigger condition holds makes calculateRisk return HIGH, unless
\* that trigger is the missing telemetry and the entity is eligible for the
\* scan exemption: then the level is MED with 'No VRAM data', 'Scan Exempt'.
OneTriggerForcesHighUnlessExempt ==
    pc = "changed" =>
        IF Eligible /\ Stage1Fired = <<"No VRAM data">>
        THEN result.level = "MED" /\ Labels = <<"No VRAM data", "Scan Exempt">>
        ELSE result.level = "HIGH" /\ Labels = Stage1Fired

\* C11 witness: the telemetry of a LOW entity that is not eligible for the
\* exemption is removed and the entity becomes HIGH
OneTriggerForcesHighWitness ==
    /\ pc = "changed"
    /\ ~Eligible
    /\ Stage1Fired = <<"No VRAM data">>
    /\ result.level = "HIGH"

\* C12: calculateRisk returns HIGH only if a stage-1 trigger condition
\* holds; an entity for which none holds is MED or LOW whatever its MED and
\* LOW metrics are.
HighOnlyByTrigger ==
    pc = "done" /\ Stage1Fired = <<>> => result.level \in {"MED", "LOW"}

\* C12 witness: no trigger holds for an entity that fails MED predicates
HighOnlyByTriggerWitness ==
    /\ pc = "done"
    /\ Stage1Fired = <<>>
    /\ Len(MedSatisfied) >= 2
    /\ result.level = "MED"

\* the order LOW < MED < HIGH
Severity(level) ==
    CASE level = "LOW" -> 0
      [] level = "MED" -> 1
      [] OTHER -> 2

\* thresholds that bound a metric from above, and from below
UpperBoundKeys ==
    {"low_vph", "med_ra_vph", "auto_high_ra_vph",
     "low_scan_age_days", "med_scan_age_days", "auto_high_scan_age_days",
     "low_tam_past_due", "med_tam_past_due", "high_tam_past_due"}

LowerBoundKeys ==
    {"low_product_compliance", "low_true_policy_compliance",
     "low_raw_policy_compliance", "med_ess_compliance",
     "med_true_policy_compliance", "med_raw_policy_compliance",
     "high_ess_compliance", "high_raw_policy_compliance", "high_product_compliance"}

\* finite non-negative values a threshold is changed to
ThresholdPoints == {Num(0), Num(100), Num(3000)}

\* the values of a key that are more permissive than its configured value
Relaxed(key) ==
    LET v == ResolveThresholds(thresholds)[key]
    IN IF v.k # "number" \/ v.n < 0 THEN {}
       ELSE IF key \in UpperBoundKeys
       THEN {w \in ThresholdPoints : w.n > v.n}
       ELSE {w \in ThresholdPoints : w.n < v.n}

\* { ...thresholds, [key]: w }
WithKey(key, w) == ConfigObject([ResolveThresholds(thresholds) EXCEPT ![key] = w])

\* C13: for a fixed entity and evaluation time, changing one threshold in the
\* permissive direction, between any two finite non-negative values, never
\* gives a strictly higher level in the order LOW < MED < HIGH.
RelaxingNeverRaises ==
    pc = "done" =>
        \A key \in UpperBoundKeys \cup LowerBoundKeys : \A w \in Relaxed(key) :
            Severity(calculateRisk(boat, WithKey(key, w), now).level)
                <= Severity(result.level)

\* the value configured for a key
Configured(key) == ResolveThresholds(thresholds)[key]

\* C14: each HIGH compliance check is disabled when its threshold is
\* configured as 0: then no value of the metric makes the entity HIGH or adds
\* a stage-1 reason.
ZeroDisablesHighCompliance ==
    pc = "done" /\ result.level = "HIGH" =>
        /\ Configured("high_product_compliance") = Num(0) =>
              ~HasLabel("NIPR Prod") /\ ~HasLabel("SIPR Prod")
        /\ Configured("high_ess_compliance") = Num(0) =>
              ~HasLabel("NIPR True Policy") /\ ~HasLabel("SIPR True Policy")
        /\ Configured("high_raw_policy_compliance") = Num(0) =>
              ~HasLabel("NIPR Raw Policy") /\ ~HasLabel("SIPR Raw Policy")

\* the value of the thresholds that switches an auto-HIGH check off
DisabledSentinel == Num(99900)

\* C15: when auto_high_ra_vph, or auto_high_scan_age_days, equals the
\* sentinel 999, the VPH check, or the scan age check, of the HIGH stage
\* never fires, however large the value.
SentinelDisablesAutoHigh ==
    pc = "done" /\ result.level = "HIGH" =>
        /\ Configured("auto_high_ra_vph") = DisabledSentinel =>
              ~HasLabel("NIPR VPH") /\ ~HasLabel("SIPR VPH")
        /\ Configured("auto_high_scan_age_days") = DisabledSentinel =>
              ~HasLabel("NIPR Scan") /\ ~HasLabel("SIPR Scan")

\* the config in which every missing key has its value of defaultThresholds
FilledWithDefaults ==
    ConfigObject([key \in ThresholdKeys |->
        IF Configured(key) = Undef THEN defaultThresholds[key] ELSE Configured(key)])

\* C16: a config lacking some keys gives the same level and reasons as the
\* same config in which every missing key has the value of defaultThresholds.
MissingKeysTakeDefaults ==
    pc = "done" => result = calculateRisk(boat, FilledWithDefaults, now)

\* the record in which every NaN and infinite field is absent
NonFiniteAsAbsent ==
    [f \in BoatFields |->
        IF boat[f].k \in {"NaN", "Infinity", "-Infinity"} THEN Null ELSE boat[f]]

\* C17: a numeric field holding NaN, +Infinity or -Infinity is treated as
\* not reported: level and reasons are those of the entity with that field
\* absent.
NonFiniteNotReported ==
    pc = "done" => result = calculateRisk(NonFiniteAsAbsent, thresholds, now)

-----------------------------------------------------------------------------
(* The display tier mappers applied to a value under a configuration       *)

\* a variant of the higher-is-better tiers: the green boundary is excluded
HigherIsBetterStrict(v, greenThreshold, redThreshold) ==
    IF Greater(v, greenThreshold) THEN "risk-low"
    ELSE IF Less(v, redThreshold) THEN "risk-high"
    ELSE "risk-med"

\* v >= greenThreshold ? 'risk-low' : v < redThreshold ? 'risk-high' : 'risk-med'
HigherIsBetter(v, greenThreshold, redThreshold) ==
    IF GreaterEq(v, greenThreshold) THEN "risk-low"
    ELSE IF Less(v, redThreshold) THEN "risk-high"
    ELSE "risk-med"

\* the body shared by the six compliance mappers, for its two keys
CompClass(v, th, greenKey, redKey) ==
    IF v.k \in {"null", "undefined"} THEN ""
    ELSE IF th.k = "null" THEN "TypeError"
    ELSE HigherIsBetter(v, OrElse(DefaultParam(th)[greenKey], Num(9500)),
                           OrElse(DefaultParam(th)[redKey], Num(9000)))

prodCompClass(v, th) == CompClass(v, th, "color_product_green", "color_product_red")

policyCompClass(v, th) == CompClass(v, th, "color_policy_green", "color_policy_red")

policyRawClass(v, th) ==
    CompClass(v, th, "color_policy_raw_green", "color_policy_raw_red")

hqProdClass(v, th) ==
    CompClass(v, th, "hq_color_product_green", "hq_color_product_red")

hqPolicyClass(v, th) == CompClass(v, th, "hq_color_policy_green", "hq_color_policy_red")

hqPolicyRawClass(v, th) ==
    CompClass(v, th, "hq_color_policy_raw_green", "hq_color_policy_raw_red")

\* Math.floor((new Date() - date) / 86400000), in hundredths
FloorDays(d, t) == Num(100 * (ElapsedSince(d, t) \div 100))

\* the tier of a valid timestamp
ScanTier(d, th, t) ==
    IF th.k = "null" THEN "TypeError"
    ELSE LET age == FloorDays(d, t)
             greenThreshold == OrElse(DefaultParam(th).color_scan_green, Num(1400))
             redThreshold == OrElse(DefaultParam(th).color_scan_red, Num(1400))
         IN IF LessEq(age, greenThreshold) THEN "risk-low"
            ELSE IF Greater(age, redThreshold) THEN "risk-high"
            ELSE "risk-med"

\* a variant of scanAgeClass: no timestamp gives no tier
scanAgeClassNeutral(d, th, t) ==
    IF ~Truthy(d) \/ ~ValidDate(d) THEN "" ELSE ScanTier(d, th, t)

scanAgeClass(d, th, t) ==
    IF ~Truthy(d) THEN "risk-high"
    ELSE IF ~ValidDate(d) THEN "risk-high"
    ELSE ScanTier(d, th, t)

NumericMappers ==
    {"prodCompClass", "policyCompClass", "policyRawClass",
     "hqProdClass", "hqPolicyClass", "hqPolicyRawClass", "vphClass"}

Mappers == NumericMappers \cup {"scanAgeClass"}

\* the exported mapper of a name, applied
Tier(mapper, v, th, t) ==
    CASE mapper = "prodCompClass" -> prodCompClass(v, th)
      [] mapper = "policyCompClass" -> policyCompClass(v, th)
      [] mapper = "policyRawClass" -> policyRawClass(v, th)
      [] mapper = "hqProdClass" -> hqProdClass(v, th)
      [] mapper = "hqPolicyClass" -> hqPolicyClass(v, th)
      [] mapper = "hqPolicyRawClass" -> hqPolicyRawClass(v, th)
      [] mapper = "vphClass" -> vphClass(v, th)
      [] OTHER -> scanAgeClass(v, th, t)

\* the keys a mapper reads
GreenKey(mapper) ==
    CASE mapper = "prodCompClass" -> "color_product_green"
      [] mapper = "policyCompClass" -> "color_policy_green"
      [] mapper = "policyRawClass" -> "color_policy_raw_green"
      [] mapper = "hqProdClass" -> "hq_color_product_green"
      [] mapper = "hqPolicyClass" -> "hq_color_policy_green"
      [] mapper = "hqPolicyRawClass" -> "hq_color_policy_raw_green"
      [] mapper = "vphClass" -> "color_vph_green"
      [] OTHER -> "color_scan_green"

RedKey(mapper) ==
    CASE mapper = "prodCompClass" -> "color_product_red"
      [] mapper = "policyCompClass" -> "color_policy_red"
      [] mapper = "policyRawClass" -> "color_policy_raw_red"
      [] mapper = "hqProdClass" -> "hq_color_product_red"
      [] mapper = "hqPolicyClass" -> "hq_color_policy_red"
      [] mapper = "hqPolicyRawClass" -> "hq_color_policy_raw_red"
      [] mapper = "vphClass" -> "color_vph_red"
      [] OTHER -> "color_scan_red"

\* the literal a mapper uses for a key that is missing or 0
GreenFallback(mapper) ==
    CASE mapper = "vphClass" -> 250
      [] mapper = "scanAgeClass" -> 1400
      [] OTHER -> 9500

RedFallback(mapper) ==
    CASE mapper = "vphClass" -> 350
      [] mapper = "scanAgeClass" -> 1400
      [] OTHER -> 9000

ColorKeys == {GreenKey(m) : m \in Mappers} \cup {RedKey(m) : m \in Mappers}

\* values a caller configures for a key of the tiers
ColorValues(key) ==
    CASE key = "color_vph_green" -> {Num(400)}
      [] key = "color_vph_red" -> {Num(500), Num(0)}
      [] key = "color_scan_green" -> {Num(700)}
      [] key = "color_scan_red" -> {Num(2100)}
      [] key \in {GreenKey(m) : m \in Mappers} -> {Num(9700), Num(0)}
      [] OTHER -> {Num(8000)}

\* values a mapper is given
DisplayValues(mapper, t) ==
    CASE mapper = "vphClass" ->
            {Null, Undef, Num(0), Num(250), Num(300), Num(350), Num(400), Num(450),
             Num(500), Num(600)}
      [] mapper = "scanAgeClass" ->
            {Null, Undef, BadStr, DateStr(t + 150), DateStr(t), DateStr(t - 700),
             DateStr(t - 750), DateStr(t - 1400), DateStr(t - 1450), DateStr(t - 1500),
             DateStr(t - 2100), DateStr(t - 2200)}
      [] OTHER ->
            {Null, Undef, Num(0), Num(7900), Num(8000), Num(8900), Num(9000),
             Num(9499), Num(9500), Num(9700), Num(10000)}

NoTier == [mapper |-> "none", value |-> Null, tier |-> "none"]

InitDisplay ==
    /\ now \in EvaluationTimes
    /\ settings = NoSettings
    /\ boat = createTestBoat
    /\ thresholds \in {ConfigObject(defaultThresholds), UndefThresholds}
    /\ edits = 0
    /\ pc = "input"
    /\ result = NoTier

\* the caller changes one key of the tiers
SetColor ==
    /\ pc = "input"
    /\ edits < MaxEdits
    /\ thresholds.k = "object"
    /\ \E key \in ColorKeys : \E v \in ColorValues(key) :
          /\ thresholds.cfg[key] # v
          /\ thresholds' = [thresholds EXCEPT !.cfg[key] = v]
    /\ edits' = edits + 1
    /\ UNCHANGED <<boat, now, pc, result, settings>>

\* one mapper is applied to one value
Render ==
    /\ pc = "input"
    /\ \E mapper \in Mappers : \E v \in DisplayValues(mapper, now) :
          result' = [mapper |-> mapper, value |-> v,
                     tier |-> Tier(mapper, v, thresholds, now)]
    /\ pc' = "shown"
    /\ UNCHANGED <<boat, thresholds, now, edits, settings>>

NextDisplay == SetColor \/ Render

SpecDisplay == InitDisplay /\ [][NextDisplay]_vars

\* the green and red thresholds in effect for the mapper that was applied
GreenOf(mapper) == InEffect(GreenKey(mapper), GreenFallback(mapper))
RedOf(mapper) == InEffect(RedKey(mapper), RedFallback(mapper))

AbsentValueTiers ==
    pc = "shown" =>
        /\ result.mapper \in NumericMappers /\ result.value \in {Null, Undef} =>
              result.tier = ""
        /\ result.mapper = "scanAgeClass" /\ result.value \in {Null, Undef, BadStr} =>
              result.tier = "risk-high"
        /\ result.mapper = "scanAgeClass" /\ result.value.k = "date" =>
              LET age == ((now - result.value.n) \div 100) * 100
              IN result.tier = IF age <= GreenOf("scanAgeClass") THEN "risk-low"
                               ELSE IF age > RedOf("scanAgeClass") THEN "risk-high"
                               ELSE "risk-med"

AbsentValueTiersWitness ==
    /\ pc = "shown"
    /\ result.mapper = "scanAgeClass"
    /\ result.value = BadStr
    /\ result.tier = "risk-high"

-----------------------------------------------------------------------------
(* The functions over an array of records.  In the specifications below    *)
(* the variable boat holds the array: each entry carries the isic, tycom,  *)
(* riskLevel and riskReasons of a record and, under rec, its other fields. *)

\* a string, as the sequence of its characters
Text(chars) == [k |-> "string", s |-> chars]

CSL == Text(<<"C", "S", "L">>)
CSP == Text(<<"C", "S", "P">>)

\* sum += v for a numeric accumulator: undefined or NaN makes the sum NaN
Plus(sum, v) ==
    IF sum.k = "number" /\ v.k = "number" THEN Num(sum.n + v.n) ELSE NaN

\* the loop over g.boats for one metric: the pair (sum, count)
RECURSIVE Accumulate(_, _, _)
Accumulate(entries, f, skipNmci) ==
    IF entries = <<>> THEN [sum |-> Num(0), cnt |-> 0]
    ELSE LET b == entries[Len(entries)].rec
             acc == Accumulate(SubSeq(entries, 1, Len(entries) - 1), f, skipNmci)
         IN IF skipNmci /\ Truthy(b.isNmci) THEN acc
            ELSE IF b[f].k # "null"
            THEN [sum |-> Plus(acc.sum, b[f]), cnt |-> acc.cnt + 1]
            ELSE acc

\* sum / cnt as the fraction num / den, 0 for an empty list
Mean(acc) ==
    IF acc.cnt > 0
    THEN IF acc.sum.k # "number" THEN [k |-> "NaN", num |-> 0, den |-> 1]
         ELSE [k |-> "number", num |-> acc.sum.n, den |-> acc.cnt]
    ELSE [k |-> "number", num |-> 0, den |-> 1]

\* cnt > 0 ? Math.min(100, sum / cnt) : 0, as the fraction num / den
Average(acc) ==
    IF acc.cnt > 0
    THEN IF acc.sum.k # "number" THEN [k |-> "NaN", num |-> 0, den |-> 1]
         ELSE IF acc.sum.n > 10000 * acc.cnt
         THEN [k |-> "number", num |-> 10000, den |-> 1]
         ELSE [k |-> "number", num |-> acc.sum.n, den |-> acc.cnt]
    ELSE [k |-> "number", num |-> 0, den |-> 1]

\* a variant of the term of a record in a breakfix sum: no record is skipped
BreakfixTermOfAll(b, f, skipNmci) == OrElse(b[f], Num(0))

\* b.isNmci ? 0 : (b[f] || 0) for NIPR, b[f] || 0 for SIPR
BreakfixTerm(b, f, skipNmci) ==
    IF skipNmci /\ Truthy(b.isNmci) THEN Num(0) ELSE OrElse(b[f], Num(0))

\* the breakfix sum of a field over the records
RECURSIVE SumBreakfix(_, _, _)
SumBreakfix(entries, f, skipNmci) ==
    IF entries = <<>> THEN Num(0)
    ELSE Plus(SumBreakfix(SubSeq(entries, 1, Len(entries) - 1), f, skipNmci),
              BreakfixTerm(entries[Len(entries)].rec, f, skipNmci))

\* the records of a riskLevel
CountLevel(entries, level) ==
    Cardinality({i \in 1..Len(entries) : entries[i].riskLevel = level})

\* the six averages, each with the field it reads and whether NMCI is skipped
AverageFields ==
    [niprProdCompAvg |-> "essNiprProductCompliance",
     niprPolEnfAvg |-> "essNiprTruePolicy",
     niprPolRawAvg |-> "essNiprPolicyEnforced",
     siprProdCompAvg |-> "essSiprProductCompliance",
     siprPolEnfAvg |-> "essSiprTruePolicy",
     siprPolRawAvg |-> "essSiprPolicyEnforced"]

NiprAverages == {"niprProdCompAvg", "niprPolEnfAvg", "niprPolRawAvg"}

\* the entries of one isic, in the order of the array
OfIsic(entries, isic) == SelectSeq(entries, LAMBDA e : e.isic = isic)

\* settings.isics.find(i => i.isic_name === isic), as the sequence of hits
Find(st, isic) == SelectSeq(st.isics, LAMBDA i : i.isic_name = isic)

\* find(...) || { isic_name: b.isic, isic_short: b.isic.slice(0, 6), tycom: b.tycom }
\* for the first record b of a key
Descriptor(b, st) ==
    IF Find(st, b.isic) # <<>> THEN Find(st, b.isic)[1]
    ELSE [isic_name |-> b.isic,
          isic_short |-> Text(SubSeq(b.isic.s, 1,
                                     IF Len(b.isic.s) < 6 THEN Len(b.isic.s) ELSE 6)),
          tycom |-> b.tycom]

\* b.isic.slice of an isic that is no string is a TypeError
GroupingThrows(entries, st) ==
    \E i \in 1..Len(entries) :
        entries[i].isic.k # "string" /\ Find(st, entries[i].isic) = <<>>

\* the groups of csl and of csp by isic, each with its aggregates
aggregateByISIC(entries, st) ==
    LET keys == {entries[i].isic : i \in 1..Len(entries)}
        info == [key \in keys |-> Descriptor(OfIsic(entries, key)[1], st)]
    IN [key \in {g \in keys : info[g].tycom \in {CSL, CSP}} |->
           LET g == OfIsic(entries, key)
           IN [a \in DOMAIN AverageFields |->
                  Average(Accumulate(g, AverageFields[a], a \in NiprAverages))]
              @@ [isicName |-> info[key].isic_name,
                  isicShort |-> info[key].isic_short,
                  tycom |-> info[key].tycom,
                  boatCount |-> Len(g),
                  niprBreakfixSum |-> SumBreakfix(g, "essNiprBreakfix", TRUE),
                  siprBreakfixSum |-> SumBreakfix(g, "essSiprBreakfix", FALSE),
                  highRiskCount |-> CountLevel(g, "HIGH"),
                  medRiskCount |-> CountLevel(g, "MED"),
                  lowRiskCount |-> CountLevel(g, "LOW")]]

Isics == {Text(<<"C", "O", "M", "S", "U", "B", "R", "O", "N", " ", "1">>),
          Text(<<"C", "S", "S", "-", "7">>)}

\* records of the aggregation tests; {} has no metric field
FleetBoats(tnow) ==
    {createTestBoat, createHealthyBoat(tnow), createNmciBoat(tnow), EmptyBoat}

\* values of a compliance field
ComplianceValues == {Null, Num(0), Num(9000), Num(12000)}

\* registries of group descriptors
Registries ==
    {NoSettings,
     [isics |-> <<[isic_name |-> Text(<<"C", "S", "S", "-", "7">>),
                   isic_short |-> Text(<<"S", "Q", "7">>),
                   tycom |-> CSL]>>],
     [isics |-> <<[isic_name |-> Text(<<"C", "S", "S", "-", "7">>),
                   isic_short |-> Text(<<"S", "Q", "7">>),
                   tycom |-> Text(<<"C", "N", "A", "L">>)]>>]}

InitFleet ==
    /\ now \in EvaluationTimes
    /\ settings \in Registries
    /\ boat = <<>>
    /\ thresholds = ConfigObject(defaultThresholds)
    /\ edits = 0
    /\ pc = "input"
    /\ result = <<>>

\* one more record in the array, of the tycom of its squadron
AddBoat ==
    /\ pc = "input"
    /\ edits < MaxEdits
    /\ \E isic \in Isics \cup {Undef} : \E r \in FleetBoats(now) :
          boat' = Append(boat, [isic |-> isic,
                                tycom |-> IF isic.k = "string" /\ Len(isic.s) < 6
                                          THEN CSP ELSE CSL,
                                riskLevel |-> "LOW", riskReasons |-> <<>>, rec |-> r])
    /\ edits' = edits + 1
    /\ UNCHANGED <<thresholds, now, pc, result, settings>>

\* one compliance field of one record is changed
SetCompliance ==
    /\ pc = "input"
    /\ edits < MaxEdits
    /\ \E i \in 1..Len(boat) : \E a \in DOMAIN AverageFields :
       \E v \in ComplianceValues :
          /\ boat[i].rec[AverageFields[a]] # v
          /\ boat' = [boat EXCEPT ![i].rec[AverageFields[a]] = v]
    /\ edits' = edits + 1
    /\ UNCHANGED <<thresholds, now, pc, result, settings>>

\* values of the other fields that the functions over the array read
RosterValues(f) ==
    CASE f = "isNmci" -> {Bool(TRUE), Bool(FALSE)}
      [] f \in {"essNiprBreakfix", "essSiprBreakfix"} -> {Null, Num(0), Num(300)}
      [] OTHER -> {Null, Num(150), Num(600)}

\* another field of one record is changed, or its riskLevel
SetRosterField ==
    /\ pc = "input"
    /\ edits < MaxEdits
    /\ \E i \in 1..Len(boat) :
          \/ \E f \in {"isNmci", "essNiprBreakfix", "essSiprBreakfix",
                       "vramNiprRaVph", "vramSiprRaVph"} :
             \E v \in RosterValues(f) :
                /\ boat[i].rec[f] # v
                /\ boat' = [boat EXCEPT ![i].rec[f] = v]
          \/ \E level \in {"HIGH", "MED", "CRITICAL"} :
                /\ boat[i].riskLevel # level
                /\ boat' = [boat EXCEPT ![i].riskLevel = level]
    /\ edits' = edits + 1
    /\ UNCHANGED <<thresholds, now, pc, result, settings>>

Aggregate ==
    /\ pc = "input"
    /\ IF GroupingThrows(boat, settings)
       THEN result' = TypeError /\ pc' = "threw"
       ELSE result' = aggregateByISIC(boat, settings) /\ pc' = "aggregated"
    /\ UNCHANGED <<boat, thresholds, now, edits, settings>>

NextFleet == AddBoat \/ SetCompliance \/ SetRosterField \/ Aggregate

SpecFleet == InitFleet /\ [][NextFleet]_vars

\* the entries of a group that report a value for the field of an average
Contributors(isic, a) ==
    {i \in 1..Len(boat) :
        /\ boat[i].isic = isic
        /\ boat[i].rec[AverageFields[a]].k = "number"
        /\ a \in NiprAverages => boat[i].rec.isNmci # Bool(TRUE)}

RECURSIVE SumOf(_, _)
SumOf(S, a) ==
    IF S = {} THEN 0
    ELSE LET i == CHOOSE j \in S : TRUE
         IN boat[i].rec[AverageFields[a]].n + SumOf(S \ {i}, a)

\* C20: each of the six averages of each group is min(100, mean of the
\* metric over the entities of the group that report it), with NMCI entities
\* left out of the NIPR averages; it is 0 when no entity contributes, and it
\* is a number whether a non-reported field is null or missing.
AveragesAreCappedMeans ==
    pc = "aggregated" =>
        \A isic \in DOMAIN result : \A a \in DOMAIN AverageFields :
            LET avg == result[isic][a]
                S == Contributors(isic, a)
                n == Cardinality(S)
                total == SumOf(S, a)
            IN /\ avg.k = "number"
               /\ IF n = 0 THEN avg.num = 0
                  ELSE IF total > 10000 * n THEN avg.num = 10000 * avg.den
                  ELSE avg.num * n = total * avg.den

\* the total of field f over the entities of S, an absent value counting 0
RECURSIVE FieldTotal(_, _)
FieldTotal(S, f) ==
    IF S = {} THEN 0
    ELSE LET i == CHOOSE j \in S : TRUE
         IN (IF boat[i].rec[f].k = "number" THEN boat[i].rec[f].n ELSE 0)
                + FieldTotal(S \ {i}, f)

NeverFailsOnKey ==
    /\ pc # "threw"
    /\ pc = "aggregated" =>
          \A isic \in DOMAIN result :
              LET first == OfIsic(boat, isic)[1]
                  hits == {j \in 1..Len(settings.isics) :
                              settings.isics[j].isic_name = isic}
              IN IF hits # {}
                 THEN \E j \in hits :
                         /\ result[isic].isicName = settings.isics[j].isic_name
                         /\ result[isic].isicShort = settings.isics[j].isic_short
                         /\ result[isic].tycom = settings.isics[j].tycom
                 ELSE /\ result[isic].isicName = isic
                      /\ result[isic].tycom = first.tycom
                      /\ \A c \in 1..6 :
                            c <= Len(isic.s) => result[isic].isicShort.s[c] = isic.s[c]
                      /\ Len(result[isic].isicShort.s) <= 6

\* C30: aggregateByISIC loses no entity: each entity is counted in exactly
\* one returned group, the three risk counts of a group add up to its
\* boatCount when every riskLevel is HIGH, MED or LOW, and an empty array
\* gives no group.
LosesNoEntity ==
    /\ pc # "threw"
    /\ pc = "aggregated" =>
          /\ \A i \in 1..Len(boat) : boat[i].isic \in DOMAIN result
          /\ \A isic \in DOMAIN result :
                LET members == {i \in 1..Len(boat) : boat[i].isic = isic}
                IN /\ result[isic].boatCount = Cardinality(members)
                   /\ (\A i \in members : boat[i].riskLevel \in {"HIGH", "MED", "LOW"}) =>
                         result[isic].highRiskCount + result[isic].medRiskCount
                             + result[isic].lowRiskCount = result[isic].boatCount
          /\ boat = <<>> => DOMAIN result = {}


-----------------------------------------------------------------------------
(* groupBoatsBy, calculateStats and calculateAllRisks over the array       *)

Unknown == Text(<<"U", "n", "k", "n", "o", "w", "n">>)

\* b[field]
FieldOf(e, field) == IF field \in {"isic", "tycom"} THEN e[field] ELSE e.rec[field]

\* b[field] || 'Unknown'
BucketKey(e, field) == OrElse(FieldOf(e, field), Unknown)

\* the buckets by key, each in the order of the array
groupBoatsBy(entries, field) ==
    [key \in {BucketKey(entries[i], field) : i \in 1..Len(entries)} |->
        SelectSeq(entries, LAMBDA e : BucketKey(e, field) = key)]

\* the values pushed for NIPR, NMCI records skipped, and for SIPR, as (sum, count)
Pooled(entries, niprField, siprField) ==
    LET n == Accumulate(entries, niprField, TRUE)
        s == Accumulate(entries, siprField, FALSE)
    IN [sum |-> Plus(n.sum, s.sum), cnt |-> n.cnt + s.cnt]

calculateStats(entries) ==
    [totalBoats |-> Len(entries),
     highRiskCount |-> CountLevel(entries, "HIGH"),
     medRiskCount |-> CountLevel(entries, "MED"),
     lowRiskCount |-> CountLevel(entries, "LOW"),
     totalBreakfix |-> Plus(SumBreakfix(entries, "essNiprBreakfix", TRUE),
                            SumBreakfix(entries, "essSiprBreakfix", FALSE)),
     avgVph |-> Mean(Pooled(entries, "vramNiprRaVph", "vramSiprRaVph")),
     avgCompliance |-> Average(Pooled(entries, "essNiprProductCompliance",
                                      "essSiprProductCompliance"))]

\* a variant of calculateAllRisks: a record that was HIGH stays HIGH
calculateAllRisksSticky(entries, th, t) ==
    [i \in 1..Len(entries) |->
        LET r == calculateRisk(entries[i].rec, th, t)
        IN IF entries[i].riskLevel = "HIGH" THEN entries[i]
           ELSE [entries[i] EXCEPT !.riskLevel = r.level, !.riskReasons = r.reasons]]

\* b.riskLevel = level; b.riskReasons = reasons, for each b; the same array
calculateAllRisks(entries, th, t) ==
    [i \in 1..Len(entries) |->
        LET r == calculateRisk(entries[i].rec, th, t)
        IN [entries[i] EXCEPT !.riskLevel = r.level, !.riskReasons = r.reasons]]

\* fields the callers group by
GroupFields == {"isic", "tycom", "isNmci", "essNiprBreakfix"}

InitRoster ==
    /\ now \in EvaluationTimes
    /\ settings = NoSettings
    /\ boat = <<>>
    /\ thresholds = ConfigObject(defaultThresholds)
    /\ edits = 0
    /\ pc = "input"
    /\ result = <<>>

GroupBy ==
    /\ pc = "input"
    /\ \E field \in GroupFields :
          result' = [field |-> field, groups |-> groupBoatsBy(boat, field)]
    /\ pc' = "grouped"
    /\ UNCHANGED <<boat, thresholds, now, edits, settings>>

Summarise ==
    /\ pc = "input"
    /\ result' = calculateStats(boat)
    /\ pc' = "summarised"
    /\ UNCHANGED <<boat, thresholds, now, edits, settings>>

\* the records are updated in place and the array is returned
ClassifyAll ==
    /\ pc = "input"
    /\ boat' = calculateAllRisks(boat, thresholds, now)
    /\ result' = boat'
    /\ pc' = "classified"
    /\ UNCHANGED <<thresholds, now, edits, settings>>

NextRoster ==
    AddBoat \/ SetCompliance \/ SetRosterField \/ GroupBy \/ Summarise \/ ClassifyAll

SpecRoster == InitRoster /\ [][NextRoster]_vars

\* the bucket an entity belongs to: its value, 'Unknown' for null or undefined
BucketOf(e, field) ==
    IF FieldOf(e, field).k \in {"null", "undefined"} THEN Unknown ELSE FieldOf(e, field)

\* C23: groupBoatsBy is a partition of its input: each entity is in exactly
\* one bucket, in input order; the key is the value of the field, and
\* exactly the entities whose value is null or undefined are under
\* 'Unknown'; an empty input gives no bucket.
PartitionByField ==
    pc = "grouped" =>
        /\ DOMAIN result.groups = {BucketOf(boat[i], result.field) : i \in 1..Len(boat)}
        /\ \A key \in DOMAIN result.groups :
              result.groups[key] =
                  SelectSeq(boat, LAMBDA e : BucketOf(e, result.field) = key)
        /\ boat = <<>> => DOMAIN result.groups = {}

\* the entities that report a number in a field, NMCI ones left out on demand
Reporting(f, skipNmci) ==
    {i \in 1..Len(boat) :
        /\ boat[i].rec[f].k = "number"
        /\ skipNmci => boat[i].rec.isNmci # Bool(TRUE)}

\* C24: calculateStats counts the entities and the tiers, sums the SIPR
\* breakfix of all entities and the NIPR breakfix of those that are not
\* isNmci, and averages the reported product compliance (capped at 100) and
\* the reported VPH, NIPR values of isNmci entities left out; on an empty
\* collection every count and average is 0; no average is NaN.
StatsAreFleetWide ==
    pc = "summarised" =>
        LET all == 1..Len(boat)
            compN == Reporting("essNiprProductCompliance", TRUE)
            compS == Reporting("essSiprProductCompliance", FALSE)
            comp == FieldTotal(compN, "essNiprProductCompliance")
                       + FieldTotal(compS, "essSiprProductCompliance")
            compCnt == Cardinality(compN) + Cardinality(compS)
            vphN == Reporting("vramNiprRaVph", TRUE)
            vphS == Reporting("vramSiprRaVph", FALSE)
            vph == FieldTotal(vphN, "vramNiprRaVph") + FieldTotal(vphS, "vramSiprRaVph")
            vphCnt == Cardinality(vphN) + Cardinality(vphS)
        IN /\ result.totalBoats = Len(boat)
           /\ result.highRiskCount = Cardinality({i \in all : boat[i].riskLevel = "HIGH"})
           /\ result.medRiskCount = Cardinality({i \in all : boat[i].riskLevel = "MED"})
           /\ result.lowRiskCount = Cardinality({i \in all : boat[i].riskLevel = "LOW"})
           /\ result.totalBreakfix =
                 Num(FieldTotal(all, "essSiprBreakfix")
                     + FieldTotal({i \in all : boat[i].rec.isNmci # Bool(TRUE)},
                                  "essNiprBreakfix"))
           /\ result.avgCompliance.k = "number"
           /\ IF compCnt = 0 THEN result.avgCompliance.num = 0
              ELSE IF comp > 10000 * compCnt
              THEN result.avgCompliance.num = 10000 * result.avgCompliance.den
              ELSE result.avgCompliance.num * compCnt = comp * result.avgCompliance.den
           /\ result.avgVph.k = "number"
           /\ IF vphCnt = 0 THEN result.avgVph.num = 0
              ELSE result.avgVph.num * vphCnt = vph * result.avgVph.den

\* C28: calculateAllRisks returns the array it was given, of the same length
\* and order; each entity has the level and reasons of calculateRisk on that
\* entity alone, whatever it carried before, no other field is changed, and
\* a second application changes nothing.
AllRisksPerEntity ==
    [][pc' = "classified" =>
          /\ result' = boat'
          /\ Len(boat') = Len(boat)
          /\ \A i \in 1..Len(boat) :
                LET r == calculateRisk(boat[i].rec, thresholds, now)
                IN boat'[i] = [boat[i] EXCEPT !.riskLevel = r.level,
                                              !.riskReasons = r.reasons]
          /\ calculateAllRisks(boat', thresholds', now') = boat']_vars

AllRisksPerEntityWitness ==
    /\ pc = "classified"
    /\ Len(boat) = 2
    /\ boat[1].rec = createHealthyBoat(now) /\ boat[1].riskLevel = "LOW"
    /\ boat[2].rec = createTestBoat /\ boat[2].riskLevel = "HIGH"
    /\ boat[2].riskReasons # <<>>


-----------------------------------------------------------------------------
(* compressAndEncode and decodeAndDecompress.  A text is the sequence of   *)
(* its UTF-16 code units, a base64 text the sequence of the indices of its *)
(* characters in the base64 alphabet, 64 standing for the padding '='.     *)
(* In this specification the variable boat holds the data to embed.        *)

JNull == [t |-> "null"]
JNum(n) == [t |-> "num", n |-> n]
JStr(s) == [t |-> "str", s |-> s]
JArr(items) == [t |-> "arr", items |-> items]
JObj(key, val) == [t |-> "obj", key |-> key, val |-> val]

\* the characters of a string literal, '"' and '\' escaped
RECURSIVE Escaped(_)
Escaped(s) ==
    IF s = <<>> THEN <<>>
    ELSE (IF Head(s) \in {34, 92} THEN <<92, Head(s)>> ELSE <<Head(s)>>)
             \o Escaped(Tail(s))

\* JSON.stringify of null, a digit, a string, an array of one or no item, or
\* an object of one key
RECURSIVE Stringify(_)
Stringify(d) ==
    CASE d.t = "null" -> <<110, 117, 108, 108>>
      [] d.t = "num" -> <<48 + d.n>>
      [] d.t = "str" -> <<34>> \o Escaped(d.s) \o <<34>>
      [] d.t = "arr" ->
            <<91>> \o (IF d.items = <<>> THEN <<>> ELSE Stringify(d.items[1])) \o <<93>>
      [] OTHER ->
            <<123, 34>> \o Escaped(d.key) \o <<34, 58>> \o Stringify(d.val) \o <<125>>

\* the bytes of a text in UTF-8
RECURSIVE Utf8(_)
Utf8(s) ==
    IF s = <<>> THEN <<>>
    ELSE LET c == Head(s)
         IN (IF c < 128 THEN <<c>>
             ELSE IF c < 2048 THEN <<192 + (c \div 64), 128 + (c % 64)>>
             ELSE <<224 + (c \div 4096), 128 + ((c \div 64) % 64), 128 + (c % 64)>>)
                \o Utf8(Tail(s))

\* the text of a sequence of bytes in UTF-8
RECURSIVE Utf8Decode(_)
Utf8Decode(b) ==
    IF b = <<>> THEN <<>>
    ELSE IF b[1] < 128 THEN <<b[1]>> \o Utf8Decode(Tail(b))
    ELSE IF b[1] < 224
    THEN <<(b[1] - 192) * 64 + (b[2] - 128)>> \o Utf8Decode(SubSeq(b, 3, Len(b)))
    ELSE <<(b[1] - 224) * 4096 + (b[2] - 128) * 64 + (b[3] - 128)>>
             \o Utf8Decode(SubSeq(b, 4, Len(b)))

\* base64 of a sequence of bytes: three bytes give four characters
RECURSIVE Base64(_)
Base64(b) ==
    IF b = <<>> THEN <<>>
    ELSE LET b2 == IF Len(b) >= 2 THEN b[2] ELSE 0
             b3 == IF Len(b) >= 3 THEN b[3] ELSE 0
             n == b[1] * 65536 + b2 * 256 + b3
         IN <<n \div 262144, (n \div 4096) % 64,
              IF Len(b) >= 2 THEN (n \div 64) % 64 ELSE 64,
              IF Len(b) >= 3 THEN n % 64 ELSE 64>>
                \o (IF Len(b) > 3 THEN Base64(SubSeq(b, 4, Len(b))) ELSE <<>>)

\* the bytes of a base64 text
RECURSIVE Base64Decode(_)
Base64Decode(c) ==
    IF Len(c) < 4 THEN <<>>
    ELSE LET c3 == IF c[3] = 64 THEN 0 ELSE c[3]
             c4 == IF c[4] = 64 THEN 0 ELSE c[4]
             n == c[1] * 262144 + c[2] * 4096 + c3 * 64 + c4
         IN (IF c[3] = 64 THEN <<n \div 65536>>
             ELSE IF c[4] = 64 THEN <<n \div 65536, (n \div 256) % 256>>
             ELSE <<n \div 65536, (n \div 256) % 256, n % 256>>)
                \o Base64Decode(SubSeq(c, 5, Len(c)))

\* h = ((h << 5) - h) + charCode; h &= h over the text: the 32 bits of h as
\* two halves of 16 bits
RECURSIVE Hash32(_)
Hash32(s) ==
    IF s = <<>> THEN [hi |-> 0, lo |-> 0]
    ELSE LET h == Hash32(SubSeq(s, 1, Len(s) - 1))
             lo == h.lo * 31 + s[Len(s)]
         IN [hi |-> (h.hi * 31 + (lo \div 65536)) % 65536, lo |-> lo % 65536]

\* Math.abs of the signed 32-bit integer of the two halves, again as halves
Abs32(h) ==
    IF h.hi < 32768 THEN h
    ELSE [hi |-> (65535 - h.hi + (IF h.lo = 0 THEN 1 ELSE 0)) % 65536,
          lo |-> (65536 - h.lo) % 65536]

\* the hexadecimal digits of a number below 65536, at least width of them
RECURSIVE HexDigits(_, _)
HexDigits(n, width) ==
    IF n < 16 /\ width <= 1 THEN <<n>>
    ELSE HexDigits(n \div 16, width - 1) \o <<n % 16>>

\* Math.abs(h).toString(16)
calculateHash(s) ==
    LET a == Abs32(Hash32(s))
    IN IF a.hi = 0 THEN HexDigits(a.lo, 1)
       ELSE HexDigits(a.hi, 1) \o HexDigits(a.lo, 4)

\* the payload hash ':' b64, as its two parts
compressAndEncode(d) ==
    LET json == Stringify(d)
    IN [hash |-> calculateHash(json), b64 |-> Base64(Utf8(json))]

\* texts of the data that is embedded
Letters == {<<>>, <<97>>, <<34>>, <<233>>, <<8364>>, <<97, 98>>, <<92, 110>>,
            <<233, 97>>, <<97, 98, 99>>, <<8364, 34, 97, 233>>}

Scalars == {JNull} \cup {JNum(n) : n \in {0, 7}} \cup {JStr(s) : s \in Letters}

\* JSON-serializable data
JsonValues ==
    Scalars \cup {JArr(<<>>)} \cup {JArr(<<x>>) : x \in Scalars}
        \cup {JObj(key, x) : key \in {<<97>>, <<233, 34>>}, x \in Scalars}

\* JSON.parse: the data of a text
Parse(json) == CHOOSE d \in JsonValues : Stringify(d) = json

\* a variant of decodeAndDecompress that trusts the prefix
decodeAndDecompressUnchecked(payload) ==
    [data |-> Parse(Utf8Decode(Base64Decode(payload.b64))), valid |-> TRUE]

decodeAndDecompress(payload) ==
    LET json == Utf8Decode(Base64Decode(payload.b64))
    IN [data |-> Parse(json), valid |-> calculateHash(json) = payload.hash]

InitEncoding ==
    /\ now \in EvaluationTimes
    /\ settings = NoSettings
    /\ boat \in JsonValues
    /\ thresholds = ConfigObject(defaultThresholds)
    /\ edits = 0
    /\ pc = "input"
    /\ result = <<>>

Encode ==
    /\ pc = "input"
    /\ result' = [payload |-> compressAndEncode(boat), sent |-> compressAndEncode(boat)]
    /\ pc' = "encoded"
    /\ UNCHANGED <<boat, thresholds, now, edits, settings>>

\* the hash prefix of the payload is replaced
Tamper ==
    /\ pc = "encoded"
    /\ \E hash \in {<<0>>, <<1, 10>>, <<15, 15, 15, 15, 15, 15, 15, 15>>,
                    calculateHash(<<110, 117, 108, 108>>)} :
          result' = [result EXCEPT !.payload.hash = hash]
    /\ pc' = "tampered"
    /\ UNCHANGED <<boat, thresholds, now, edits, settings>>

Decode ==
    /\ pc \in {"encoded", "tampered"}
    /\ result' = [payload |-> result.payload, sent |-> result.sent,
                  decoded |-> decodeAndDecompress(result.payload)]
    /\ pc' = "decoded"
    /\ UNCHANGED <<boat, thresholds, now, edits, settings>>

NextEncoding == Encode \/ Tamper \/ Decode

SpecEncoding == InitEncoding /\ [][NextEncoding]_vars

\* C26: decoding an encoded value gives data equal to the value and valid =
\* true; decoding a payload whose hash prefix differs from the 32-bit hash of
\* the decoded JSON text gives valid = false.
RoundTripWithIntegrity ==
    pc = "decoded" =>
        /\ result.payload = result.sent =>
              result.decoded.data = boat /\ result.decoded.valid
        /\ result.payload.hash # result.sent.hash => ~result.decoded.valid

RoundTripWithIntegrityWitness ==
    /\ pc = "decoded"
    /\ boat = JObj(<<233, 34>>, JStr(<<8364, 34, 97, 233>>))
    /\ result.payload = result.sent
    /\ result.decoded.valid


-----------------------------------------------------------------------------
(* generateDynamicLegend.  A legend is three lists of entries, each entry  *)
(* the criterion it names and the threshold value it shows.                *)

Entry(criterion, v, listed) == [criterion |-> criterion, value |-> v, listed |-> listed]

IsListed(e) == e.listed

\* highParts with the condition of each push
highParts(t) ==
    <<Entry("Breakfix", Num(0), TRUE),
      Entry("No VRAM Scan", Null, TRUE),
      Entry("TAM", t.high_tam_past_due,
            Less(OrElse(t.high_tam_past_due, Num(99900)), Num(99900))),
      Entry("VPH", t.auto_high_ra_vph,
            Less(OrElse(t.auto_high_ra_vph, Num(99900)), Num(99900))),
      Entry("Scan", t.auto_high_scan_age_days,
            Less(OrElse(t.auto_high_scan_age_days, Num(99900)), Num(99900))),
      Entry("TruePolicy", t.high_ess_compliance,
            Greater(OrElse(t.high_ess_compliance, Num(0)), Num(0))),
      Entry("RawPolicy", t.high_raw_policy_compliance,
            Greater(OrElse(t.high_raw_policy_compliance, Num(0)), Num(0))),
      Entry("Product", t.high_product_compliance,
            Greater(OrElse(t.high_product_compliance, Num(0)), Num(0)))>>

medParts(t) ==
    <<Entry("VPH", OrElse(t.med_ra_vph, Num(350)), TRUE),
      Entry("Product", OrElse(t.med_ess_compliance, Num(9500)), TRUE),
      Entry("TruePolicy", t.med_true_policy_compliance,
            Greater(OrElse(t.med_true_policy_compliance, Num(0)), Num(0))),
      Entry("RawPolicy", t.med_raw_policy_compliance,
            Greater(OrElse(t.med_raw_policy_compliance, Num(0)), Num(0))),
      Entry("Scan", OrElse(t.med_scan_age_days, Num(1400)), TRUE),
      Entry("TAM", OrElse(t.med_tam_past_due, Num(1000)), TRUE)>>

lowParts(t) ==
    <<Entry("VPH", OrElse(t.low_vph, Num(250)), TRUE),
      Entry("Product", OrElse(t.low_product_compliance, Num(9500)), TRUE),
      Entry("TruePolicy", OrElse(t.low_true_policy_compliance, Num(9500)),
            IsOne(Coalesce(t.low_true_policy_compliance_enabled, Num(0)))),
      Entry("RawPolicy", OrElse(t.low_raw_policy_compliance, Num(9500)),
            IsOne(Coalesce(t.low_raw_policy_compliance_enabled, Num(0)))),
      Entry("Scan", OrElse(t.low_scan_age_days, Num(1400)), TRUE),
      Entry("TAM", OrElse(t.low_tam_past_due, Num(500)),
            IsOne(Coalesce(t.low_tam_past_due_enabled, Num(0))))>>

\* { high, med, low }: the entries that are pushed, in order
generateDynamicLegend(th) ==
    LET t == ResolveThresholds(th)
    IN [high |-> SelectSeq(highParts(t), IsListed),
        med |-> SelectSeq(medParts(t), IsListed),
        low |-> SelectSeq(lowParts(t), IsListed)]

InitLegend ==
    /\ now \in EvaluationTimes
    /\ settings = NoSettings
    /\ boat = createHealthyBoat(now)
    /\ thresholds \in {ConfigObject(defaultThresholds), UndefThresholds}
    /\ edits = 0
    /\ pc = "input"
    /\ result = <<>>

\* const legend = generateDynamicLegend(thresholds)
GenerateLegend ==
    /\ pc = "input"
    /\ result' = generateDynamicLegend(thresholds)
    /\ pc' = "legend"
    /\ UNCHANGED <<boat, thresholds, now, edits, settings>>

NextLegend == SetThreshold \/ GenerateLegend

SpecLegend == InitLegend /\ [][NextLegend]_vars

\* the optional criteria of the HIGH tier, each with the reasons it gives
OptionalHigh ==
    [TAM |-> {"TAMs"},
     VPH |-> {"NIPR VPH", "SIPR VPH"},
     Scan |-> {"NIPR Scan", "SIPR Scan"},
     TruePolicy |-> {"NIPR True Policy", "SIPR True Policy"},
     RawPolicy |-> {"NIPR Raw Policy", "SIPR Raw Policy"},
     Product |-> {"NIPR Prod", "SIPR Prod"}]

\* healthy entities with one metric at an extreme value
Extremes ==
    {Override(createHealthyBoat(now), o) :
        o \in {[tamPastDue |-> Num(100000)],
               [vramSiprRaVph |-> Num(100000)],
               [vramSiprScanDate |-> DateStr(now - 100050)],
               [essSiprTruePolicy |-> Num(0)],
               [essSiprPolicyEnforced |-> Num(0)],
               [essSiprProductCompliance |-> Num(0)]}}

\* some entity is classified HIGH with a reason of the criterion
CanClassifyHigh(c) ==
    \E b \in Extremes :
        LET r == calculateRisk(b, thresholds, now)
        IN /\ r.level = "HIGH"
           /\ \E i \in 1..Len(r.reasons) : r.reasons[i].label \in OptionalHigh[c]

ListedIn(parts, c) == \E i \in 1..Len(parts) : parts[i].criterion = c

\* the threshold the HIGH stage of calculateRisk compares a criterion against
HighCompared(c) ==
    LET t == ResolveThresholds(thresholds)
    IN CASE c = "TAM" -> OrElse(t.high_tam_past_due, Num(2000))
         [] c = "VPH" -> OrElse(t.auto_high_ra_vph, Num(500))
         [] c = "Scan" -> OrElse(t.auto_high_scan_age_days, Num(3000))
         [] c = "TruePolicy" -> OrElse(t.high_ess_compliance, Num(0))
         [] c = "RawPolicy" -> OrElse(t.high_raw_policy_compliance, Num(0))
         [] OTHER -> OrElse(t.high_product_compliance, Num(5000))

\* C27: the legend lists an optional HIGH criterion exactly when
\* calculateRisk can classify some entity HIGH through it under the same
\* config, and each optional HIGH criterion that is listed shows the
\* threshold calculateRisk compares the metric against.
LegendMatchesRisk ==
    pc = "legend" =>
        /\ \A c \in DOMAIN OptionalHigh :
              ListedIn(result.high, c) <=> CanClassifyHigh(c)
        /\ \A i \in 1..Len(result.high) :
              result.high[i].criterion \in DOMAIN OptionalHigh =>
                  result.high[i].value = HighCompared(result.high[i].criterion)


-----------------------------------------------------------------------------
(* Determinism and the shape of the result                                 *)

\* the instants at which a call is made: the instant of the first call and
\* ten days later
CallTimes == {now, now + 1000}

\* C25: two calls of calculateRisk with equal entity and equal thresholds
\* return equal results whenever they are made, and so do two calls of
\* scanAgeClass with equal timestamp and equal thresholds.
SameResultWheneverCalled ==
    pc = "done" =>
        \A t \in CallTimes :
            /\ calculateRisk(boat, thresholds, t) = result
            /\ scanAgeClass(boat.vramSiprScanDate, thresholds, t)
                   = scanAgeClass(boat.vramSiprScanDate, thresholds, now)


\* C29: the level of a result is HIGH, MED or LOW, and it is LOW exactly
\* when the list of reasons is empty.
LowIffNoReasons ==
    pc = "done" /\ ~result.threw =>
        /\ result.level \in {"HIGH", "MED", "LOW"}
        /\ result.level = "LOW" <=> result.reasons = <<>>


LowIffNoReasonsWitness ==
    /\ pc = "done"
    /\ result.level = "MED"
    /\ Len(result.reasons) = 1
    /\ result.reasons[1].label = "SIPR VPH"

====
